---------------------------- MODULE Spec2Model ----------------------------
(***************************************************************************)
(* Field orders: the order manager (src/orders.py), the market simulator   *)
(* (src/simulation.py), the live exchange connector                        *)
(* (src/exchange/connector.py) and the reconciliation loop of src/main.py. *)
(*                                                                         *)
(* Prices and amounts are Python floats in the source; here they are exact *)
(* rationals <<numerator, denominator>> in lowest terms, so the arithmetic *)
(* of the source is kept up to float rounding.  Order ids are the          *)
(* simulator's counter values (the source turns them into strings).        *)
(* The 'timestamp' of a record is left out; 'last_update' is kept as a     *)
(* mark that a poll has stamped the record.                                *)
(*                                                                         *)
(* src/main.py still calls the manager by the names place_fat_finger_buy,  *)
(* setup_tiered_sells and check_order_status; they are read here as        *)
(* place_buy_field, deploy_sell_field and check_field_status of            *)
(* src/orders.py, the only OrderManager in the repository.                 *)
(* Its Dashboard is read as TacticalDashboard of src/ui.py.                *)
(*                                                                         *)
(* A live exchange is outside the repository: it is taken to fill, reject, *)
(* partly fill or expire a resting order, and to answer or not.            *)
(***************************************************************************)
EXTENDS Integers, Sequences, FiniteSets, TLC

(***************************************************************************)
(* Exact rational arithmetic.                                              *)
(***************************************************************************)
Abs(x) == IF x < 0 THEN 0 - x ELSE x

RECURSIVE GCD(_, _)
GCD(a, b) == IF b = 0 THEN a ELSE GCD(b, a % b)

Rat(n, d) ==
    LET g == GCD(Abs(n), Abs(d))
        s == IF d < 0 THEN 0 - 1 ELSE 1
    IN  <<(s * n) \div g, (s * d) \div g>>

RInt(n) == <<n, 1>>
RAdd(a, b) == Rat(a[1] * b[2] + b[1] * a[2], a[2] * b[2])
RSub(a, b) == Rat(a[1] * b[2] - b[1] * a[2], a[2] * b[2])
RMul(a, b) == Rat(a[1] * b[1], a[2] * b[2])
RDiv(a, b) == Rat(a[1] * b[2], a[2] * b[1])
RLe(a, b) == a[1] * b[2] <= b[1] * a[2]
RIsZero(a) == a[1] = 0

RECURSIVE RSum(_)
RSum(s) == IF s = <<>> THEN RInt(0) ELSE RAdd(Head(s), RSum(Tail(s)))

\* A float field whose key is absent from a Python dict.
None == <<>>

\* d[k] = v for every k :> v of new: a key already in d is overwritten.
Stored(d, new) == new @@ d

(***************************************************************************)
(* Configuration (src/config/settings.py, OrderManager.__init__).          *)
(***************************************************************************)
\* The order settings the manager is constructed with.
ORDER_SETTINGS ==
    [discount_percentage |-> RInt(15),
     profit_tiers |-> <<RInt(5), RInt(10), RInt(15)>>]
tier_percentages == <<Rat(1, 2), Rat(3, 10), Rat(1, 5)>>

\* Discounts the program is started with: the one of the settings file,
\* and the whole price.
CliDiscounts == {RInt(15), RInt(100)}

\* What the dashboard's settings panel can send to apply_settings: the
\* settings the program started with, and others.
NewSettings ==
    {[scanner |-> [min_volatility |-> RInt(5)], order |-> ORDER_SETTINGS],
     [scanner |-> [min_volatility |-> RInt(10)],
      order |-> [discount_percentage |-> RInt(20),
                 profit_tiers |-> <<RInt(10), RInt(20), RInt(30)>>]]}

\* ORDER_SETTINGS['max_position_size'] and
\* RISK_SETTINGS['max_concurrent_positions']
max_position_size == 100
max_concurrent_positions == 5

\* Simulator.next_order_id starts at 1000.
FirstOrderId == 1000

\* AlertManager keeps the last 100 alerts.
HistoryLimit == 100

(***************************************************************************)
(* Bounds of the model.                                                    *)
(***************************************************************************)
\* Number of orders the simulator issues before placements are cut off.
MaxOrders == 4
\* Number of orders a live venue issues before placements are cut off.
MaxLiveOrders == 3
\* Number of entry orders placed before place_buy_field is cut off.
MaxEntries == 1
\* Entries placed while other threads poll.
MaxThreadEntries == 2
\* Entries the CLI loop places in one run.
MaxCliEntries == 6
\* Orders placed on the simulator directly.
MaxSimOrders == 3
\* Threads that call check_field_status at the same time.
Threads == {1, 2}
\* Candles get_ohlcv returns for one symbol (window_size at most).
MaxCandles == 2

Symbols == {"BTC/USDT"}
TrackedSymbols == {"BTC/USDT"}
\* Symbols of orders placed on the simulator directly: one it tracks a
\* price for, and one it does not.
SimSymbols == {"BTC/USDT", "DOGE/USDT"}
\* The symbols the scanner looks at, in the order get_markets lists them,
\* and their places in lexical order.
Markets == {"BTC/USDT", "ETH/USDT"}
MarketList == <<"BTC/USDT", "ETH/USDT">>
SymbolRank == [s \in Markets |-> IF s = "BTC/USDT" THEN 1 ELSE 2]
\* The symbols argument of scan_market: none, or some markets in an order.
SymbolLists ==
    {<<>>, <<"BTC/USDT">>, <<"ETH/USDT">>, <<"BTC/USDT", "ETH/USDT">>,
     <<"ETH/USDT", "BTC/USDT">>}
\* Candles <<high, low>>: a range of 5%, one of 20%, and an empty one.
Candles == {<<105, 100>>, <<60, 50>>, <<0, 0>>}
\* Values of min_volatility.
MinVolatilities == {RInt(0), RInt(5), RInt(10)}
\* Prices the simulator's random walk can land on.
PriceLevels == {RInt(80), RInt(90), RInt(100)}
InitialPrice == RInt(100)
\* Amounts and limit prices of orders placed on the simulator directly.
SimAmounts == {RInt(1)}
SimPrices == {RInt(90)}
\* Arguments of place_buy_field.
BasePrices == {RInt(0), RInt(100)}
PositionSizes == {RInt(50)}
GatewayBasePrices == {RInt(0), RInt(100), RInt(200)}
GatewayPositionSizes == {RInt(50), RInt(100)}
\* The sets of tiers a live venue refuses within one deployment: none, one
\* in the middle, all.
RejectionPatterns == {{}, {2}, {1, 2, 3}}
\* An order id the manager never stored.
UnknownId == FirstOrderId - 1
\* time.time() at a poll: the clock is abstracted to "stamped by a poll".
Stamp == <<1>>

VARIABLES
    live,               \* TRUE: ExchangeConnector, FALSE: Simulator (--simulate)
    prices,             \* Simulator.prices
    orders,             \* the venue's order book (Simulator.orders)
    next_order_id,      \* Simulator.next_order_id
    active_orders,      \* OrderManager.active_orders
    buy_field_orders,   \* OrderManager.buy_field_orders (ids; same dict objects)
    sell_field_orders,  \* OrderManager.sell_field_orders (ids; same dict objects)
    trades,             \* rows of the trades table (Storage.save_trade)
    pass,               \* order ids check_and_update_orders has still to visit
    polls,              \* per thread: the check_field_status call it is in
    placing,            \* the place_buy_field call in progress, if any
    reader,             \* the dashboard refresh: where it is, what it holds
    no_gui,             \* args.no_gui: the CLI loop, or the dashboard
    is_running,         \* TacticalDashboard.is_running
    alive,              \* the process has not exited
    alert_history,      \* AlertManager.alert_history
    ohlcv,              \* per symbol: what get_ohlcv returns
    tickers,            \* per symbol: what get_ticker returns
    min_volatility,     \* VolatilityScanner.min_volatility
    volatile_pairs,     \* what the last scan_market call returned
    discount_percentage,    \* OrderManager.discount_percentage
    profit_tiers        \* OrderManager.profit_tiers

vars == <<live, prices, orders, next_order_id, active_orders,
          buy_field_orders, sell_field_orders, trades, pass,
          polls, placing, reader, no_gui, is_running, alive, alert_history,
          ohlcv, tickers, min_volatility, volatile_pairs,
          discount_percentage, profit_tiers>>

\* zip(self.profit_tiers, self.tier_percentages) stops at the shorter list.
NumTiers ==
    IF Len(profit_tiers) <= Len(tier_percentages)
    THEN Len(profit_tiers) ELSE Len(tier_percentages)
Tiers == 1 .. NumTiers

\* The session, the scanner and the alerts around the order manager.
sessVars == <<no_gui, is_running, alive>>
scanVars == <<ohlcv, tickers, min_volatility, volatile_pairs>>
cfgVars == <<discount_percentage, profit_tiers>>
appVars == <<sessVars, scanVars, cfgVars, alert_history>>

\* The callers' positions inside the handlers when these run interleaved.
thrVars == <<polls, placing, reader>>

simVars == <<prices, orders, next_order_id>>
mgrVars == <<active_orders, buy_field_orders, sell_field_orders>>

IssuedIds == DOMAIN orders
KnownIds == DOMAIN active_orders

(***************************************************************************)
(* Return values.  status is the 'status' of the returned dict, "empty"    *)
(* for {} and []; ids are the ids of the returned orders; sells and buys   *)
(* count the place_limit_sell / place_limit_buy calls the handler made.    *)
(***************************************************************************)
Ret(op, arg, status, filled, ids, buys, sells) ==
    [op |-> op, arg |-> arg, status |-> status, filled |-> filled,
     ids |-> ids, buys |-> buys, sells |-> sells]

\* {} as returned by a failed gateway call or by dict.get(order_id, {}).
EmptyDict == [status |-> "empty", filled |-> None]

IsEmpty(d) == d.status = "empty"

\* The scanner before any market data has been looked at.
InitScanner ==
    /\ ohlcv = [s \in Markets |-> [rows |-> <<>>, wellformed |-> TRUE]]
    /\ tickers = [s \in Markets |-> "ok"]
    /\ min_volatility = RInt(5)
    /\ volatile_pairs = <<>>

\* The empty order tables, the venue and the alert manager after
\* construction.
InitState ==
    /\ alert_history = <<>>
    /\ is_running = FALSE
    /\ alive = TRUE
    /\ live \in BOOLEAN
    /\ prices = [s \in TrackedSymbols |-> InitialPrice]
    /\ orders = <<>>
    /\ next_order_id = FirstOrderId
    /\ active_orders = <<>>
    /\ buy_field_orders = {}
    /\ sell_field_orders = {}
    /\ trades = <<>>
    /\ pass = <<>>
    /\ polls = [t \in Threads |->
                  [pc |-> "idle", id |-> UnknownId, status |-> EmptyDict]]
    /\ placing = <<>>
    /\ reader = [pc |-> "idle", shown |-> <<>>]

\* The order manager, the venue and the alert manager after construction,
\* with the order settings of src/config/settings.py.
InitManager ==
    /\ discount_percentage = ORDER_SETTINGS.discount_percentage
    /\ profit_tiers = ORDER_SETTINGS.profit_tiers
    /\ InitState

Init ==
    /\ InitManager
    /\ InitScanner
    /\ no_gui = FALSE

(***************************************************************************)
(* The venue: Simulator (src/simulation.py) when ~live, the exchange       *)
(* behind ExchangeConnector when live.                                     *)
(***************************************************************************)
\* Simulator.place_order: the record stored under the new id.
place_order(symbol, side, amount, price) ==
    [symbol |-> symbol, side |-> side, amount |-> amount, price |-> price,
     status |-> "open", filled |-> RInt(0), remaining |-> amount]

\* Simulator.get_order_status: self.orders.get(order_id, {}).
get_order_status(book, order_id) ==
    IF order_id \in DOMAIN book THEN book[order_id] ELSE EmptyDict

\* self.prices.get(symbol, 0)
PriceOf(px, symbol) ==
    IF symbol \in DOMAIN px THEN px[symbol] ELSE RInt(0)

\* A fill condition that leaves out the order whose price is met exactly.
ShouldFillStrict(order, current_price) ==
    \/ order.side = "buy" /\ ~RLe(order.price, current_price)
    \/ order.side = "sell" /\ ~RLe(current_price, order.price)

\* The fill condition of Simulator.update_orders.
ShouldFill(order, current_price) ==
    \/ order.side = "buy" /\ RLe(current_price, order.price)
    \/ order.side = "sell" /\ RLe(order.price, current_price)

\* A fill that sets the status and leaves the amounts as they were.
FillStatusOnly(order) == [order EXCEPT !.status = "closed"]

\* The fill of Simulator.update_orders.
Fill(order) ==
    [order EXCEPT !.status = "closed", !.filled = order.amount,
                  !.remaining = RInt(0)]

\* A matching loop that does not skip the orders that are no longer open.
MatchOrdersNotSkipping(book, px) ==
    [id \in DOMAIN book |->
        IF ShouldFill(book[id], PriceOf(px, book[id].symbol))
        THEN Fill(book[id]) ELSE book[id]]

\* The loop of Simulator.update_orders over a book at the prices px.
MatchOrders(book, px) ==
    [id \in DOMAIN book |->
        IF /\ book[id].status = "open"
           /\ ShouldFill(book[id], PriceOf(px, book[id].symbol))
        THEN Fill(book[id]) ELSE book[id]]

\* cancel_order that answers for an open order without taking it off the
\* book.
cancel_order_unrecorded(book, order_id) ==
    IF order_id \in DOMAIN book /\ book[order_id].status = "open"
    THEN [book |-> book,
          result |-> [book[order_id] EXCEPT !.status = "canceled"]]
    ELSE [book |-> book, result |-> EmptyDict]

\* Simulator.cancel_order on a book: the new book and the returned dict.
cancel_order(book, order_id) ==
    IF order_id \in DOMAIN book /\ book[order_id].status = "open"
    THEN LET b == [book EXCEPT ![order_id].status = "canceled"]
         IN  [book |-> b, result |-> b[order_id]]
    ELSE [book |-> book, result |-> EmptyDict]

\* Simulator.update_prices: every tracked symbol takes a new price.  The
\* uniform draws are abstracted to a choice among PriceLevels.
update_prices(f) ==
    /\ ~live
    /\ prices' = f
    /\ UNCHANGED <<appVars, thrVars, live, orders, next_order_id, mgrVars,
                   trades, pass>>

\* Simulator.update_orders: every open order that meets the fill condition
\* is filled completely.
update_orders ==
    /\ ~live
    /\ orders' = MatchOrders(orders, prices)
    /\ UNCHANGED <<appVars, thrVars, live, prices, next_order_id, mgrVars,
                   trades, pass>>

\* Simulator.place_limit_buy and place_limit_sell, called on the simulator
\* itself: place_order takes the next id and stores the record.
place_limit_buy(symbol, amount, price) ==
    /\ ~live
    /\ next_order_id < FirstOrderId + MaxSimOrders
    /\ orders' = Stored(orders, next_order_id :>
                                   place_order(symbol, "buy", amount, price))
    /\ next_order_id' = next_order_id + 1
    /\ UNCHANGED <<appVars, thrVars, live, prices, mgrVars, trades, pass>>

place_limit_sell(symbol, amount, price) ==
    /\ ~live
    /\ next_order_id < FirstOrderId + MaxSimOrders
    /\ orders' = Stored(orders, next_order_id :>
                                   place_order(symbol, "sell", amount, price))
    /\ next_order_id' = next_order_id + 1
    /\ UNCHANGED <<appVars, thrVars, live, prices, mgrVars, trades, pass>>

\* Simulator.cancel_order, called on the simulator itself.
simulator_cancel_order(order_id) ==
    /\ ~live
    /\ orders' = cancel_order(orders, order_id).book
    /\ UNCHANGED <<appVars, thrVars, live, prices, next_order_id, mgrVars,
                   trades, pass>>

\* Statuses a live exchange gives an order it takes off the book by itself.
ExchangeStatuses == {"closed", "rejected"}

\* The live exchange fills or rejects a resting order.
exchange_event(order_id, st) ==
    /\ live
    /\ order_id \in DOMAIN orders
    /\ orders[order_id].status = "open"
    /\ orders' = [orders EXCEPT ![order_id] =
                    IF st = "closed" THEN Fill(@) ELSE [@ EXCEPT !.status = st]]
    /\ UNCHANGED <<appVars, thrVars, live, prices, next_order_id, mgrVars,
                   trades, pass>>

\* What a live exchange can also report for a resting order: part of it
\* filled, or the order expired.
GatewayReports == {"partial", "expired"}

PartialFill(order) ==
    [order EXCEPT !.filled = RMul(order.amount, Rat(1, 2)),
                  !.remaining = RMul(order.amount, Rat(1, 2))]

\* The live exchange fills half of a resting order or lets it expire.
exchange_report(order_id, st) ==
    /\ live
    /\ order_id \in DOMAIN orders
    /\ orders[order_id].status = "open"
    /\ st = "partial" => orders[order_id].filled = RInt(0)
    /\ orders' = [orders EXCEPT ![order_id] =
                    IF st = "partial" THEN PartialFill(@)
                    ELSE [@ EXCEPT !.status = st]]
    /\ UNCHANGED <<appVars, thrVars, live, prices, next_order_id, mgrVars,
                   trades, pass>>

(***************************************************************************)
(* OrderManager (src/orders.py).                                           *)
(***************************************************************************)
EntryIds == {id \in KnownIds : active_orders[id].type = "buy"}
ExitIds == {id \in KnownIds : active_orders[id].type = "sell"}

\* The venue may issue n more ids within the bounds.
Room(n) ==
    next_order_id + n
        <= FirstOrderId + (IF live THEN MaxLiveOrders ELSE MaxOrders)

\* The discount applied as a markup.
BuyPriceMarkup(base_price) ==
    RMul(base_price, RAdd(RInt(1), RDiv(discount_percentage, RInt(100))))

\* buy_price = base_price * (1 - (self.discount_percentage / 100))
BuyPrice(base_price) ==
    RMul(base_price, RSub(RInt(1), RDiv(discount_percentage, RInt(100))))

\* The profit taken off the entry price instead of added to it.
SellPriceBelow(buy_price, profit) ==
    RMul(buy_price, RSub(RInt(1), RDiv(profit, RInt(100))))

\* sell_price = buy_price * (1 + (profit / 100))
SellPrice(buy_price, profit) ==
    RMul(buy_price, RAdd(RInt(1), RDiv(profit, RInt(100))))

\* sell_amount = total_amount * percentage
SellAmount(total_amount, percentage) == RMul(total_amount, percentage)

BuyRecord(symbol, amount, buy_price, base_price) ==
    [type |-> "buy", symbol |-> symbol, amount |-> amount, price |-> buy_price,
     base_price |-> base_price, buy_price |-> None, profit_percentage |-> None,
     tier |-> 0, related_buy |-> 0, field_type |-> "buy",
     status |-> "none", filled |-> None, last_update |-> None]

SellRecord(symbol, sell_amount, sell_price, buy_price, profit, i, buy_order_id) ==
    [type |-> "sell", symbol |-> symbol, amount |-> sell_amount,
     price |-> sell_price, base_price |-> None, buy_price |-> buy_price,
     profit_percentage |-> profit, tier |-> i, related_buy |-> buy_order_id,
     field_type |-> "sell", status |-> "none", filled |-> None,
     last_update |-> None]

\* place_buy_field that stores the record before it looks at the gateway's
\* result.
PlaceBuyFieldEager(ao, bfo, book, nid, symbol, base_price, position_size, ok) ==
    LET buy_price == BuyPrice(base_price)
    IN
    IF RIsZero(buy_price)
    THEN [active_orders |-> ao, buy_field_orders |-> bfo, orders |-> book,
          next_order_id |-> nid,
          ret |-> Ret("place_buy_field", 0, "empty", None, <<>>, 0, 0)]
    ELSE
    LET amount == RDiv(position_size, buy_price)
    IN  [active_orders |-> Stored(ao,
            (nid :> BuyRecord(symbol, amount, buy_price, base_price))),
         buy_field_orders |-> bfo \cup {nid},
         orders |-> IF ok
                    THEN Stored(book,
                         (nid :> place_order(symbol, "buy", amount, buy_price)))
                    ELSE book,
         next_order_id |-> IF ok THEN nid + 1 ELSE nid,
         ret |-> IF ok
                 THEN Ret("place_buy_field", 0, "open", RInt(0), <<nid>>, 1, 0)
                 ELSE Ret("place_buy_field", 0, "empty", None, <<>>, 1, 0)]

\* A placement that takes the amount as 0 where the price is 0 and goes
\* on to the gateway.
PlaceBuyFieldZeroAmount(ao, bfo, book, nid, symbol, base_price, position_size, ok) ==
    LET buy_price == BuyPrice(base_price)
        amount == IF RIsZero(buy_price) THEN RInt(0)
                  ELSE RDiv(position_size, buy_price)
    IN  IF ~ok
        THEN [active_orders |-> ao, buy_field_orders |-> bfo, orders |-> book,
              next_order_id |-> nid,
              ret |-> Ret("place_buy_field", 0, "empty", None, <<>>, 1, 0)]
        ELSE [active_orders |-> Stored(ao,
                 (nid :> BuyRecord(symbol, amount, buy_price, base_price))),
              buy_field_orders |-> bfo \cup {nid},
              orders |-> Stored(book,
                 (nid :> place_order(symbol, "buy", amount, buy_price))),
              next_order_id |-> nid + 1,
              ret |-> Ret("place_buy_field", 0, "open", RInt(0), <<nid>>, 1, 0)]

\* A placement on a venue that hands out the same id again: the counter
\* is not advanced.
PlaceBuyFieldSameId(ao, bfo, book, nid, symbol, base_price, position_size, ok) ==
    LET buy_price == BuyPrice(base_price)
        failed(buys) ==
            [active_orders |-> ao, buy_field_orders |-> bfo, orders |-> book,
             next_order_id |-> nid,
             ret |-> Ret("place_buy_field", 0, "empty", None, <<>>, buys, 0)]
    IN
    IF RIsZero(buy_price) THEN failed(0)
    ELSE IF ~ok THEN failed(1)
    ELSE
    LET amount == RDiv(position_size, buy_price)
    IN  [active_orders |-> Stored(ao,
            (nid :> BuyRecord(symbol, amount, buy_price, base_price))),
         buy_field_orders |-> bfo \cup {nid},
         orders |-> Stored(book,
            (nid :> place_order(symbol, "buy", amount, buy_price))),
         next_order_id |-> nid,
         ret |-> Ret("place_buy_field", 0, "open", RInt(0), <<nid>>, 1, 0)]

\* OrderManager.place_buy_field on the manager's and the venue's state.
\* ok: the gateway's place_limit_buy answers.
PlaceBuyField(ao, bfo, book, nid, symbol, base_price, position_size, ok) ==
    LET buy_price == BuyPrice(base_price)
        failed(buys) ==
            [active_orders |-> ao, buy_field_orders |-> bfo, orders |-> book,
             next_order_id |-> nid,
             ret |-> Ret("place_buy_field", 0, "empty", None, <<>>, buys, 0)]
    IN
    \* position_size / buy_price raises; the except returns {}
    IF RIsZero(buy_price) THEN failed(0)
    ELSE IF ~ok THEN failed(1)
    ELSE
    LET amount == RDiv(position_size, buy_price)
    IN  [active_orders |-> Stored(ao,
            (nid :> BuyRecord(symbol, amount, buy_price, base_price))),
         buy_field_orders |-> bfo \cup {nid},
         orders |-> Stored(book,
            (nid :> place_order(symbol, "buy", amount, buy_price))),
         next_order_id |-> nid + 1,
         ret |-> Ret("place_buy_field", 0, "open", RInt(0), <<nid>>, 1, 0)]

place_buy_field(symbol, base_price, position_size, ok) ==
    LET r == PlaceBuyField(active_orders, buy_field_orders, orders,
                           next_order_id, symbol, base_price, position_size,
                           ok)
    IN  /\ pass = <<>>
        /\ Room(Len(r.ret.ids))
        /\ r.ret.ids # <<>> => Cardinality(EntryIds) < MaxEntries
        /\ active_orders' = r.active_orders
        /\ buy_field_orders' = r.buy_field_orders
        /\ orders' = r.orders
        /\ next_order_id' = r.next_order_id
        /\ UNCHANGED <<appVars, thrVars, live, prices, sell_field_orders,
                       trades, pass>>

TierSeq == [i \in 1 .. NumTiers |-> i]

\* A tier loop that gives up at the first tier the gateway refuses.
DeployTiersUntilFailure(ao, sfo, book, nid, buy_order_id, rejected) ==
    LET buy_order == ao[buy_order_id]
        placed == SelectSeq(TierSeq,
                           LAMBDA i : \A j \in 1 .. i : j \notin rejected)
        newIds == {nid + k - 1 : k \in 1 .. Len(placed)}
        tierOf(id) == placed[id - nid + 1]
        sell_price(id) == SellPrice(buy_order.price, profit_tiers[tierOf(id)])
        sell_amount(id) ==
            SellAmount(buy_order.amount, tier_percentages[tierOf(id)])
    IN  [active_orders |-> Stored(ao,
            [id \in newIds |->
                SellRecord(buy_order.symbol, sell_amount(id), sell_price(id),
                           buy_order.price, profit_tiers[tierOf(id)],
                           tierOf(id), buy_order_id)]),
         sell_field_orders |-> sfo \cup newIds,
         orders |-> Stored(book,
            [id \in newIds |->
                place_order(buy_order.symbol, "sell", sell_amount(id),
                            sell_price(id))]),
         next_order_id |-> nid + Len(placed),
         ret |-> Ret("deploy_sell_field", buy_order_id,
                     IF placed = <<>> THEN "empty" ELSE "list", None,
                     [k \in 1 .. Len(placed) |-> nid + k - 1], 0,
                     IF Len(placed) < NumTiers THEN Len(placed) + 1
                     ELSE NumTiers)]

\* The tier loop of deploy_sell_field: one place_limit_sell per
\* (profit, percentage) pair; each tier the gateway accepts is recorded.
\* rejected: the tiers whose place_limit_sell returns nothing.
DeployTiers(ao, sfo, book, nid, buy_order_id, rejected) ==
    LET buy_order == ao[buy_order_id]
        placed == SelectSeq(TierSeq, LAMBDA i : i \notin rejected)
        newIds == {nid + k - 1 : k \in 1 .. Len(placed)}
        tierOf(id) == placed[id - nid + 1]
        sell_price(id) == SellPrice(buy_order.price, profit_tiers[tierOf(id)])
        sell_amount(id) ==
            SellAmount(buy_order.amount, tier_percentages[tierOf(id)])
    IN  [active_orders |-> Stored(ao,
            [id \in newIds |->
                SellRecord(buy_order.symbol, sell_amount(id), sell_price(id),
                           buy_order.price, profit_tiers[tierOf(id)],
                           tierOf(id), buy_order_id)]),
         sell_field_orders |-> sfo \cup newIds,
         orders |-> Stored(book,
            [id \in newIds |->
                place_order(buy_order.symbol, "sell", sell_amount(id),
                            sell_price(id))]),
         next_order_id |-> nid + Len(placed),
         ret |-> Ret("deploy_sell_field", buy_order_id,
                     IF placed = <<>> THEN "empty" ELSE "list", None,
                     [k \in 1 .. Len(placed) |-> nid + k - 1], 0, NumTiers)]

\* return [] of deploy_sell_field before any order is placed.
DeployNothing(ao, sfo, book, nid, buy_order_id) ==
    [active_orders |-> ao, sell_field_orders |-> sfo, orders |-> book,
     next_order_id |-> nid,
     ret |-> Ret("deploy_sell_field", buy_order_id, "empty", None, <<>>, 0, 0)]

\* deploy_sell_field without the check that the gateway reports the entry
\* filled.
DeploySellFieldUnchecked(ao, sfo, book, nid, buy_order_id, ok, rejected) ==
    IF buy_order_id \notin DOMAIN ao
    THEN DeployNothing(ao, sfo, book, nid, buy_order_id)
    ELSE DeployTiers(ao, sfo, book, nid, buy_order_id, rejected)

\* OrderManager.deploy_sell_field on the manager's and the venue's state.
\* ok: the gateway's get_order_status answers.
DeploySellField(ao, sfo, book, nid, buy_order_id, ok, rejected) ==
    IF buy_order_id \notin DOMAIN ao
    THEN DeployNothing(ao, sfo, book, nid, buy_order_id)
    ELSE LET order_status == IF ok THEN get_order_status(book, buy_order_id)
                             ELSE EmptyDict
         IN  IF order_status.status # "closed"
             THEN DeployNothing(ao, sfo, book, nid, buy_order_id)
             ELSE DeployTiers(ao, sfo, book, nid, buy_order_id, rejected)

deploy_sell_field(buy_order_id, ok, rejected) ==
    LET r == DeploySellField(active_orders, sell_field_orders, orders,
                             next_order_id, buy_order_id, ok, rejected)
    IN  /\ pass = <<>>
        /\ Room(Len(r.ret.ids))
        /\ active_orders' = r.active_orders
        /\ sell_field_orders' = r.sell_field_orders
        /\ orders' = r.orders
        /\ next_order_id' = r.next_order_id
        /\ UNCHANGED <<appVars, thrVars, live, prices, buy_field_orders,
                       trades, pass>>

\* check_field_status that updates the local record whatever the gateway
\* returned: {} gives the status 'unknown'.
CheckFieldStatusUnguarded(ao, book, order_id, ok) ==
    IF order_id \notin DOMAIN ao
    THEN [active_orders |-> ao,
          ret |-> Ret("check_field_status", order_id, "empty", None,
                      <<>>, 0, 0)]
    ELSE
    LET status == IF ok THEN get_order_status(book, order_id) ELSE EmptyDict
    IN  [active_orders |->
            [ao EXCEPT ![order_id].status =
                           IF IsEmpty(status) THEN "unknown"
                           ELSE status.status,
                       ![order_id].filled =
                           IF IsEmpty(status) THEN RInt(0)
                           ELSE status.filled,
                       ![order_id].last_update = Stamp],
         ret |-> Ret("check_field_status", order_id, status.status,
                     status.filled, <<>>, 0, 0)]

\* check_field_status that updates the local record only on a fill and
\* leaves 'filled' alone.
CheckFieldStatusFillOnly(ao, book, order_id, ok) ==
    IF order_id \notin DOMAIN ao
    THEN [active_orders |-> ao,
          ret |-> Ret("check_field_status", order_id, "empty", None,
                      <<>>, 0, 0)]
    ELSE
    LET status == IF ok THEN get_order_status(book, order_id) ELSE EmptyDict
    IN  [active_orders |->
            IF status.status # "closed" THEN ao
            ELSE [ao EXCEPT ![order_id].status = status.status],
         ret |-> Ret("check_field_status", order_id, status.status,
                     status.filled, <<>>, 0, 0)]

\* OrderManager.check_field_status.  ok: the gateway's get_order_status
\* answers.
CheckFieldStatus(ao, book, order_id, ok) ==
    IF order_id \notin DOMAIN ao
    THEN [active_orders |-> ao,
          ret |-> Ret("check_field_status", order_id, "empty", None,
                      <<>>, 0, 0)]
    ELSE
    LET status == IF ok THEN get_order_status(book, order_id) ELSE EmptyDict
    IN  [active_orders |->
            IF IsEmpty(status) THEN ao
            ELSE [ao EXCEPT ![order_id].status = status.status,
                            ![order_id].filled = status.filled,
                            ![order_id].last_update = Stamp],
         ret |-> Ret("check_field_status", order_id, status.status,
                     status.filled, <<>>, 0, 0)]

\* A poll that deploys the exit field itself when it sees the fill.
check_field_status_chained(order_id, ok) ==
    LET r == CheckFieldStatus(active_orders, orders, order_id, ok)
        d == DeploySellField(r.active_orders, sell_field_orders, orders,
                             next_order_id, order_id, ok, {})
    IN  /\ pass = <<>>
        /\ Room(Len(d.ret.ids))
        /\ active_orders' = d.active_orders
        /\ sell_field_orders' = d.sell_field_orders
        /\ orders' = d.orders
        /\ next_order_id' = d.next_order_id
        /\ UNCHANGED <<appVars, thrVars, live, prices, buy_field_orders,
                       trades, pass>>

check_field_status(order_id, ok) ==
    LET r == CheckFieldStatus(active_orders, orders, order_id, ok)
    IN  /\ pass = <<>>
        /\ active_orders' = r.active_orders
        /\ UNCHANGED <<appVars, thrVars, live, simVars, buy_field_orders,
                       sell_field_orders,
                       trades, pass>>

\* retract_field that marks the order canceled whatever cancel_order returns.
RetractFieldUnchecked(ao, bfo, sfo, book, order_id, ok) ==
    IF order_id \notin DOMAIN ao
    THEN [active_orders |-> ao, buy_field_orders |-> bfo,
          sell_field_orders |-> sfo, orders |-> book,
          ret |-> Ret("retract_field", order_id, "empty", None, <<>>, 0, 0)]
    ELSE
    LET c == IF ok THEN cancel_order(book, order_id)
             ELSE [book |-> book, result |-> EmptyDict]
    IN  [active_orders |-> [ao EXCEPT ![order_id].status = "canceled"],
         buy_field_orders |-> bfo \ {order_id},
         sell_field_orders |-> sfo \ {order_id},
         orders |-> c.book,
         ret |-> Ret("retract_field", order_id, c.result.status,
                     c.result.filled, <<>>, 0, 0)]

\* OrderManager.retract_field.  ok: the gateway's cancel_order answers.
RetractField(ao, bfo, sfo, book, order_id, ok) ==
    IF order_id \notin DOMAIN ao
    THEN [active_orders |-> ao, buy_field_orders |-> bfo,
          sell_field_orders |-> sfo, orders |-> book,
          ret |-> Ret("retract_field", order_id, "empty", None, <<>>, 0, 0)]
    ELSE
    LET order == ao[order_id]
        c == IF ok THEN cancel_order(book, order_id)
             ELSE [book |-> book, result |-> EmptyDict]
        result == c.result
    IN  IF IsEmpty(result)
        THEN [active_orders |-> ao, buy_field_orders |-> bfo,
              sell_field_orders |-> sfo, orders |-> c.book,
              ret |-> Ret("retract_field", order_id, "empty", None,
                          <<>>, 0, 0)]
        ELSE [active_orders |-> [ao EXCEPT ![order_id].status = "canceled"],
              buy_field_orders |->
                  IF order.field_type = "buy" THEN bfo \ {order_id} ELSE bfo,
              sell_field_orders |->
                  IF order.field_type = "sell" THEN sfo \ {order_id} ELSE sfo,
              orders |-> c.book,
              ret |-> Ret("retract_field", order_id, result.status,
                          result.filled, <<>>, 0, 0)]

\* retract_field that deletes the retracted order's record from the table.
retract_field_deleting(order_id, ok) ==
    LET r == RetractField(active_orders, buy_field_orders, sell_field_orders,
                          orders, order_id, ok)
    IN  /\ pass = <<>>
        /\ active_orders' =
              IF r.ret.status = "empty" THEN r.active_orders
              ELSE [k \in DOMAIN r.active_orders \ {order_id} |->
                      r.active_orders[k]]
        /\ buy_field_orders' = r.buy_field_orders
        /\ sell_field_orders' = r.sell_field_orders
        /\ orders' = r.orders
        /\ UNCHANGED <<appVars, thrVars, live, prices, next_order_id, trades,
                       pass>>

retract_field(order_id, ok) ==
    LET r == RetractField(active_orders, buy_field_orders, sell_field_orders,
                          orders, order_id, ok)
    IN  /\ pass = <<>>
        /\ active_orders' = r.active_orders
        /\ buy_field_orders' = r.buy_field_orders
        /\ sell_field_orders' = r.sell_field_orders
        /\ orders' = r.orders
        /\ UNCHANGED <<appVars, thrVars, live, prices, next_order_id, trades,
                       pass>>

(***************************************************************************)
(* The reconciliation loop, check_and_update_orders (src/main.py), one     *)
(* iteration of its for loop per step.                                     *)
(***************************************************************************)
\* trade_data with the profit taken as a share of the exit price.
TradeDataOnExitPrice(order_id, order) ==
    [order_id |-> order_id, symbol |-> order.symbol, side |-> order.type,
     amount |-> order.amount, price |-> order.price,
     profit |-> IF order.type = "sell" /\ order.buy_price # None
                THEN RMul(RDiv(RSub(order.price, order.buy_price),
                               order.price), RInt(100))
                ELSE None]

\* trade_data of check_and_update_orders, as stored by Storage.save_trade.
TradeData(order_id, order) ==
    [order_id |-> order_id, symbol |-> order.symbol, side |-> order.type,
     amount |-> order.amount, price |-> order.price,
     profit |-> IF order.type = "sell" /\ order.buy_price # None
                THEN RMul(RDiv(RSub(order.price, order.buy_price),
                               order.buy_price), RInt(100))
                ELSE None]

\* One entry of AlertManager.alert_history: the event type and the data
\* passed to trigger_alert (the entry's own timestamp is left out).
Alert(type, order_id, symbol, price, amount, profit) ==
    [type |-> type, order_id |-> order_id, symbol |-> symbol,
     price |-> price, amount |-> amount, profit |-> profit]

\* A history that takes each new alert at its front.
trigger_alerts_at_front(history, alerts) ==
    LET h == [k \in 1 .. Len(alerts) |-> alerts[Len(alerts) + 1 - k]]
               \o history
    IN  IF Len(h) > HistoryLimit THEN SubSeq(h, 1, HistoryLimit) ELSE h

\* AlertManager.trigger_alert and on_alert for the alerts of one handler,
\* in the order they are triggered: each is appended and the history is
\* cut to its last HistoryLimit entries.
trigger_alerts(history, alerts) ==
    LET h == history \o alerts
    IN  IF Len(h) > HistoryLimit
        THEN SubSeq(h, Len(h) - HistoryLimit + 1, Len(h))
        ELSE h

\* Python's xs[start:]: a negative start counts from the end, and a start
\* beyond either end is clipped to it.
SliceFrom(xs, start) ==
    LET from == IF start < 0
                THEN (IF Len(xs) + start < 0 THEN 0 ELSE Len(xs) + start)
                ELSE (IF start > Len(xs) THEN Len(xs) ELSE start)
    IN  SubSeq(xs, from + 1, Len(xs))

\* The alerts of one event type, in the order of the history.
FilteredAlerts(history, event_type) ==
    SelectSeq(history, LAMBDA alert : alert.type = event_type)

\* The event_type of a call without one: `if event_type:` takes None and
\* the empty string alike.
NoEventType == ""

\* AlertManager.get_recent_alerts: the slice [-limit:] of the history, or
\* of its alerts of event_type when one is given.
get_recent_alerts(history, limit, event_type) ==
    IF event_type # NoEventType
    THEN SliceFrom(FilteredAlerts(history, event_type), 0 - limit)
    ELSE SliceFrom(history, 0 - limit)

\* The ORDER_PLACED alert of place_fat_finger_buy_with_storage: price and
\* amount are computed again from the arguments.
OrderPlacedAlert(order_id, symbol, base_price, position_size) ==
    Alert("order_placed", order_id, symbol, BuyPrice(base_price),
          RDiv(position_size, BuyPrice(base_price)), None)

\* An alert for the first order of the sell field only.
SellOrderPlacedAlertsFirst(ao, ids) ==
    IF ids = <<>> THEN <<>>
    ELSE <<Alert("sell_order_placed", ids[1], ao[ids[1]].symbol,
                 ao[ids[1]].price, ao[ids[1]].amount, None)>>

\* The SELL_ORDER_PLACED alerts of setup_tiered_sells_with_storage, one
\* per order deploy_sell_field returned, read from the order table.
SellOrderPlacedAlerts(ao, ids) ==
    [k \in 1 .. Len(ids) |->
        Alert("sell_order_placed", ids[k], ao[ids[k]].symbol,
              ao[ids[k]].price, ao[ids[k]].amount, None)]

\* The ORDER_FILLED or SELL_ORDER_FILLED alert of check_and_update_orders.
FilledAlert(order_id, order) ==
    IF order.type = "buy"
    THEN Alert("order_filled", order_id, order.symbol, order.price,
               order.amount, None)
    ELSE Alert("sell_order_filled", order_id, order.symbol, order.price,
               order.amount, TradeData(order_id, order).profit)

\* place_fat_finger_buy_with_storage (src/main.py): the manager's
\* placement, then the alert when an order came back.
place_fat_finger_buy_with_storage(symbol, base_price, position_size, ok) ==
    LET r == PlaceBuyField(active_orders, buy_field_orders, orders,
                           next_order_id, symbol, base_price, position_size,
                           ok)
    IN  /\ alive
        /\ pass = <<>>
        /\ Room(Len(r.ret.ids))
        /\ r.ret.ids # <<>> => Cardinality(EntryIds) < MaxEntries
        /\ active_orders' = r.active_orders
        /\ buy_field_orders' = r.buy_field_orders
        /\ orders' = r.orders
        /\ next_order_id' = r.next_order_id
        /\ alert_history' =
              IF r.ret.ids = <<>> THEN alert_history
              ELSE trigger_alerts(alert_history,
                     <<OrderPlacedAlert(r.ret.ids[1], symbol, base_price,
                                        position_size)>>)
        /\ UNCHANGED <<sessVars, scanVars, cfgVars, thrVars, live, prices,
                       sell_field_orders, trades, pass>>

\* for order_id, order in list(order_manager.active_orders.items()):
check_and_update_orders_begin ==
    /\ alive
    /\ pass = <<>>
    /\ KnownIds # {}
    /\ pass' = [i \in 1 .. Cardinality(KnownIds) |-> FirstOrderId + i - 1]
    /\ UNCHANGED <<appVars, thrVars, live, simVars, mgrVars, trades>>

\* The body of the loop for an order not yet known to be filled: poll it
\* and, when the poll reports it filled, save the trade, trigger the alert
\* and, for an entry, deploy the sell field and trigger its alerts.
Reconcile(order_id, pollOk, deployOk, rejected) ==
    LET order == active_orders[order_id]
        chk == CheckFieldStatus(active_orders, orders, order_id, pollOk)
        closed == [chk.active_orders EXCEPT ![order_id].status = "closed"]
        dep == DeploySellField(closed, sell_field_orders, orders,
                               next_order_id, order_id, deployOk, rejected)
    IN  IF chk.ret.status # "closed"
        THEN /\ active_orders' = chk.active_orders
             /\ UNCHANGED <<orders, next_order_id, sell_field_orders, trades,
                            alert_history>>
        ELSE /\ trades' = Append(trades, TradeData(order_id, order))
             /\ IF order.type = "buy"
                THEN /\ Room(Len(dep.ret.ids))
                     /\ active_orders' = dep.active_orders
                     /\ sell_field_orders' = dep.sell_field_orders
                     /\ orders' = dep.orders
                     /\ next_order_id' = dep.next_order_id
                     /\ alert_history' =
                           trigger_alerts(alert_history,
                              <<FilledAlert(order_id, order)>> \o
                              SellOrderPlacedAlerts(dep.active_orders,
                                                    dep.ret.ids))
                ELSE /\ active_orders' = closed
                     /\ alert_history' =
                           trigger_alerts(alert_history,
                                          <<FilledAlert(order_id, order)>>)
                     /\ UNCHANGED <<orders, next_order_id, sell_field_orders>>

\* The loop without its skip of orders already known to be filled.
check_and_update_orders_step_noskip(pollOk, deployOk, rejected) ==
    /\ pass # <<>>
    /\ pass' = Tail(pass)
    /\ UNCHANGED <<sessVars, scanVars, cfgVars, thrVars, live, prices,
                   buy_field_orders>>
    /\ Reconcile(Head(pass), pollOk, deployOk, rejected)

\* One iteration of the loop: orders already known to be filled are skipped.
check_and_update_orders_step(pollOk, deployOk, rejected) ==
    /\ alive
    /\ pass # <<>>
    /\ pass' = Tail(pass)
    /\ UNCHANGED <<sessVars, scanVars, cfgVars, thrVars, live, prices,
                   buy_field_orders>>
    /\ IF active_orders[Head(pass)].status = "closed"
       THEN UNCHANGED <<orders, next_order_id, active_orders,
                        sell_field_orders, trades, alert_history>>
       ELSE Reconcile(Head(pass), pollOk, deployOk, rejected)

(***************************************************************************)
(* The handlers of src/orders.py as threads run them: one step per gateway *)
(* call and per dictionary operation (each of which the interpreter runs   *)
(* as a whole).  The code takes no lock.                                   *)
(***************************************************************************)
\* The ids a thread polls: the threads share the ids out between them.
OwnedBy(t) == {id \in KnownIds : id % Cardinality(Threads) = t - 1}

OtherThread(t) == CHOOSE u \in Threads : u # t

\* check_field_status up to the return of get_order_status (161-170).
poll_call(t, order_id, ok) ==
    /\ polls[t].pc = "idle"
    /\ order_id \in OwnedBy(t)
    /\ LET status == IF ok THEN get_order_status(orders, order_id)
                     ELSE EmptyDict
       IN  polls' = [polls EXCEPT ![t] =
                        [pc |-> "fetched", id |-> order_id,
                         status |-> [status |-> status.status,
                                     filled |-> status.filled]]]
    /\ UNCHANGED <<appVars, live, simVars, mgrVars, trades, pass, placing,
                   reader>>

\* The update of the record with another thread's gateway result.
poll_store_shared(t) ==
    /\ polls[t].pc = "fetched"
    /\ LET status == polls[OtherThread(t)].status
           order_id == polls[t].id
       IN  active_orders' =
               IF IsEmpty(status) THEN active_orders
               ELSE [active_orders EXCEPT
                        ![order_id].status = status.status,
                        ![order_id].filled = status.filled,
                        ![order_id].last_update = Stamp]
    /\ polls' = [polls EXCEPT ![t].pc = "idle"]
    /\ UNCHANGED <<appVars, live, simVars, buy_field_orders, sell_field_orders,
                   trades, pass, placing, reader>>

\* check_field_status from 'if status' to the return (173-180).
poll_store(t) ==
    /\ polls[t].pc = "fetched"
    /\ LET status == polls[t].status
           order_id == polls[t].id
       IN  active_orders' =
               IF IsEmpty(status) THEN active_orders
               ELSE [active_orders EXCEPT
                        ![order_id].status = status.status,
                        ![order_id].filled = status.filled,
                        ![order_id].last_update = Stamp]
    /\ polls' = [polls EXCEPT ![t].pc = "idle"]
    /\ UNCHANGED <<appVars, live, simVars, buy_field_orders, sell_field_orders,
                   trades, pass, placing, reader>>

\* place_buy_field up to the return of place_limit_buy with an order
\* (45-56); a call that returns {} changes nothing.
place_call(symbol, base_price, position_size) ==
    LET buy_price == BuyPrice(base_price)
        amount == RDiv(position_size, buy_price)
    IN  /\ placing = <<>>
        /\ ~RIsZero(buy_price)
        /\ Room(1)
        /\ Cardinality(IssuedIds) < MaxThreadEntries
        /\ orders' = Stored(orders,
              (next_order_id :> place_order(symbol, "buy", amount, buy_price)))
        /\ next_order_id' = next_order_id + 1
        /\ placing' = <<[pc |-> "placed", id |-> next_order_id,
                         record |-> BuyRecord(symbol, amount, buy_price,
                                              base_price)]>>
        /\ UNCHANGED <<appVars, live, prices, mgrVars, trades, pass, polls,
                       reader>>

\* self.active_orders[order['id']] = {...} (58-66)
place_store ==
    /\ placing # <<>>
    /\ placing[1].pc = "placed"
    /\ active_orders' = Stored(active_orders, (placing[1].id :> placing[1].record))
    /\ placing' = <<[placing[1] EXCEPT !.pc = "stored"]>>
    /\ UNCHANGED <<appVars, live, simVars, buy_field_orders, sell_field_orders,
                   trades, pass, polls, reader>>

\* self.buy_field_orders[order['id']] = ... and the return (69-74)
place_track ==
    /\ placing # <<>>
    /\ placing[1].pc = "stored"
    /\ buy_field_orders' = buy_field_orders \cup {placing[1].id}
    /\ placing' = <<>>
    /\ UNCHANGED <<appVars, live, simVars, active_orders, sell_field_orders,
                   trades, pass, polls, reader>>

(***************************************************************************)
(* The dashboard refresh (src/ui.py 703-707).  get_buy_field_orders and    *)
(* get_sell_field_orders return the manager's own dicts, whose values are  *)
(* the records of active_orders themselves; all_fields.update copies the   *)
(* keys and keeps the same record objects.  reader.shown is the content of *)
(* all_fields as it was when it was read.                                  *)
(***************************************************************************)
\* What all_fields holds now: its keys with the records they refer to.
Held == [id \in DOMAIN reader.shown |-> active_orders[id]]

\* all_fields = {}; all_fields.update(self.order_manager.get_buy_field_orders())
read_buy_fields ==
    /\ reader.pc = "idle"
    /\ reader' = [pc |-> "half",
                  shown |-> [id \in buy_field_orders |-> active_orders[id]]]
    /\ UNCHANGED <<appVars, live, simVars, mgrVars, trades, pass, polls,
                   placing>>

\* all_fields.update(self.order_manager.get_sell_field_orders())
read_sell_fields ==
    /\ reader.pc = "half"
    /\ reader' = [pc |-> "holding",
                  shown |-> [id \in DOMAIN reader.shown \cup sell_field_orders
                               |-> active_orders[id]]]
    /\ UNCHANGED <<appVars, live, simVars, mgrVars, trades, pass, polls,
                   placing>>

\* self.fields_table.update_data(all_fields): the table is drawn and
\* all_fields is dropped.
show_fields ==
    /\ reader.pc = "holding"
    /\ reader' = [pc |-> "idle", shown |-> <<>>]
    /\ UNCHANGED <<appVars, live, simVars, mgrVars, trades, pass, polls,
                   placing>>

(***************************************************************************)
(* VolatilityScanner (src/scanner.py).  A candle is <<high, low>>, the two *)
(* columns the scanner reads.  A score is a rational, or Inf or NaN where  *)
(* the float division by a low of 0 gives inf or nan.                      *)
(***************************************************************************)
Inf == <<1, 0>>
NaN == <<0, 0>>

\* What get_ohlcv hands back for a symbol: rows, well formed or not (rows
\* that pandas cannot put under the six column names).  A failed fetch and
\* a symbol without data both give no rows.
Feed(rows, wellformed) == [rows |-> rows, wellformed |-> wellformed]

RECURSIVE SeqsUpTo(_, _)
SeqsUpTo(S, n) ==
    IF n = 0 THEN {<<>>}
    ELSE LET shorter == SeqsUpTo(S, n - 1)
         IN  shorter \cup {Append(q, x) : q \in shorter, x \in S}

Feeds ==
    {Feed(rows, TRUE) : rows \in SeqsUpTo(Candles, MaxCandles)}
        \cup {Feed(<<c>>, FALSE) : c \in {CHOOSE c \in Candles : TRUE}}

\* ((df['high'] - df['low']) / df['low']) * 100 for one row
CandleVolatility(candle) ==
    LET high == candle[1]
        low == candle[2]
    IN  IF low # 0 THEN Rat((high - low) * 100, low)
        ELSE IF high = low THEN NaN
        ELSE Inf

\* The range of the window as a percentage of its lowest low.
WindowRange(rows) ==
    LET highs == {rows[k][1] : k \in 1 .. Len(rows)}
        lows == {rows[k][2] : k \in 1 .. Len(rows)}
        top == CHOOSE h \in highs : \A g \in highs : g <= h
        bottom == CHOOSE l \in lows : \A g \in lows : l <= g
    IN  CandleVolatility(<<top, bottom>>)

\* df['volatility'].mean(): nan entries are skipped, the mean of none is
\* nan, and an inf among them makes the mean inf.
Mean(rows) ==
    LET vols == [k \in 1 .. Len(rows) |-> CandleVolatility(rows[k])]
        kept == SelectSeq(vols, LAMBDA v : v # NaN)
    IN  IF kept = <<>> THEN NaN
        ELSE IF \E k \in 1 .. Len(kept) : kept[k] = Inf THEN Inf
        ELSE RDiv(RSum(kept), RInt(Len(kept)))

\* VolatilityScanner.calculate_volatility on what get_ohlcv returned.
calculate_volatility(feed) ==
    IF feed.rows = <<>> THEN RInt(0)
    ELSE IF ~feed.wellformed THEN RInt(0)
    ELSE Mean(feed.rows)

\* a >= b on floats: false when either is nan.
ScoreGeq(a, b) ==
    IF a = NaN \/ b = NaN THEN FALSE
    ELSE IF a = Inf THEN TRUE
    ELSE IF b = Inf THEN FALSE
    ELSE RLe(b, a)

\* What get_ticker hands back: a ticker, {} after a failed fetch or for a
\* symbol the venue does not know, or something that is not a dict.
TickerKinds == {"ok", "empty", "malformed"}

\* ticker.get('last', 0) and ticker.get('quoteVolume', 0)
TickerLast(kind) == IF kind = "ok" THEN InitialPrice ELSE RInt(0)

\* One entry of volatile_pairs.
Pair(symbol, volatility, kind) ==
    [symbol |-> symbol, volatility |-> volatility,
     last_price |-> TickerLast(kind), volume |-> TickerLast(kind)]

\* sorted(volatile_pairs, key=lambda x: x['volatility'], reverse=True):
\* the sort is stable, pairs of equal volatility keep the order they were
\* appended in.
RECURSIVE Sorted(_)
Sorted(pairs) ==
    IF pairs = <<>> THEN <<>>
    ELSE LET last == pairs[Len(pairs)]
             front == Sorted(SubSeq(pairs, 1, Len(pairs) - 1))
             ahead == {k \in 1 .. Len(front) :
                         ScoreGeq(front[k].volatility, last.volatility)}
             n == Cardinality(ahead)
         IN  SubSeq(front, 1, n) \o <<last>> \o SubSeq(front, n + 1, Len(front))

\* A scan that appends every symbol, whatever its score.
ScanMarketUnfiltered(symbols, marketsOk, feeds, tk, mv) ==
    LET scanned == IF symbols # <<>> THEN symbols
                   ELSE IF marketsOk THEN MarketList ELSE <<>>
    IN  IF \E k \in 1 .. Len(scanned) : tk[scanned[k]] = "malformed"
        THEN <<>>
        ELSE Sorted([k \in 1 .. Len(scanned) |->
                        Pair(scanned[k],
                             calculate_volatility(feeds[scanned[k]]),
                             tk[scanned[k]])])

\* VolatilityScanner.scan_market.  marketsOk: get_markets answers (a
\* failed call gives {}, no symbols).  A ticker that is not a dict makes
\* ticker.get raise: the except around the whole scan returns [].
ScanMarket(symbols, marketsOk, feeds, tk, mv) ==
    LET scanned == IF symbols # <<>> THEN symbols
                   ELSE IF marketsOk THEN MarketList ELSE <<>>
        qualifying ==
            SelectSeq(scanned,
                LAMBDA sym : ScoreGeq(calculate_volatility(feeds[sym]), mv))
    IN  IF \E k \in 1 .. Len(qualifying) : tk[qualifying[k]] = "malformed"
        THEN <<>>
        ELSE Sorted([k \in 1 .. Len(qualifying) |->
                        Pair(qualifying[k],
                             calculate_volatility(feeds[qualifying[k]]),
                             tk[qualifying[k]])])

scan_market(symbols, marketsOk) ==
    /\ volatile_pairs' =
          ScanMarket(symbols, marketsOk, ohlcv, tickers, min_volatility)
    /\ UNCHANGED <<ohlcv, tickers, min_volatility, sessVars, cfgVars,
                   alert_history,
                   thrVars, live, simVars, mgrVars, trades, pass>>

(***************************************************************************)
(* The session: the dashboard's scanner switch and window                  *)
(* (TacticalDashboard, src/ui.py) and the CLI loop of src/main.py.         *)
(***************************************************************************)
\* TacticalDashboard.start_scanner
start_scanner ==
    /\ alive /\ ~no_gui
    /\ is_running' = TRUE
    /\ UNCHANGED <<no_gui, alive, scanVars, cfgVars, alert_history, thrVars,
                   live, simVars, mgrVars, trades, pass>>

\* A stop that retracts every order still resting on the venue.
stop_scanner_retracting ==
    /\ alive /\ ~no_gui
    /\ is_running' = FALSE
    /\ orders' = [id \in DOMAIN orders |->
                    IF id \in KnownIds /\ orders[id].status = "open"
                    THEN [orders[id] EXCEPT !.status = "canceled"]
                    ELSE orders[id]]
    /\ active_orders' = [id \in KnownIds |->
                    IF orders[id].status = "open"
                    THEN [active_orders[id] EXCEPT !.status = "canceled"]
                    ELSE active_orders[id]]
    /\ UNCHANGED <<no_gui, alive, scanVars, cfgVars, alert_history, thrVars,
                   live, prices, next_order_id, buy_field_orders,
                   sell_field_orders, trades, pass>>

\* TacticalDashboard.stop_scanner
stop_scanner ==
    /\ alive /\ ~no_gui
    /\ is_running' = FALSE
    /\ UNCHANGED <<no_gui, alive, scanVars, cfgVars, alert_history, thrVars,
                   live, simVars, mgrVars, trades, pass>>

\* TacticalDashboard.closeEvent: with the scanner running the user is
\* asked, and "No" keeps the window; the process ends with the window and
\* its daemon thread with it.
closeEvent(reply) ==
    /\ alive /\ ~no_gui
    /\ alive' = (is_running /\ reply = "No")
    /\ UNCHANGED <<no_gui, is_running, scanVars, cfgVars, alert_history,
                   thrVars, live, simVars, mgrVars, trades, pass>>

\* KeyboardInterrupt in the CLI loop: re-raised, logged, and main returns.
KeyboardInterrupt ==
    /\ alive /\ no_gui
    /\ alive' = FALSE
    /\ UNCHANGED <<no_gui, is_running, scanVars, cfgVars, alert_history,
                   thrVars, live, simVars, mgrVars, trades, pass>>

\* Settings applied to the orders already on record as well: every exit is
\* given the new profit of its tier and the price that goes with it.
apply_settings_repricing(new_settings) ==
    /\ alive /\ ~no_gui
    /\ min_volatility' = new_settings.scanner.min_volatility
    /\ discount_percentage' = new_settings.order.discount_percentage
    /\ profit_tiers' = new_settings.order.profit_tiers
    /\ active_orders' =
          [id \in KnownIds |->
              LET rec == active_orders[id]
                  profit == new_settings.order.profit_tiers[rec.tier]
              IN  IF rec.type = "sell"
                  THEN [rec EXCEPT !.profit_percentage = profit,
                                   !.price = SellPrice(rec.buy_price, profit)]
                  ELSE rec]
    /\ UNCHANGED <<ohlcv, tickers, volatile_pairs, sessVars, alert_history,
                   thrVars, live, simVars, buy_field_orders,
                   sell_field_orders, trades, pass>>

\* TacticalDashboard.apply_settings: the scanner's and the order manager's
\* fields are assigned (window_size and the stored settings are not part
\* of the model).
apply_settings(new_settings) ==
    /\ alive /\ ~no_gui
    /\ min_volatility' = new_settings.scanner.min_volatility
    /\ discount_percentage' = new_settings.order.discount_percentage
    /\ profit_tiers' = new_settings.order.profit_tiers
    /\ UNCHANGED <<ohlcv, tickers, volatile_pairs, sessVars, alert_history,
                   thrVars, live, simVars, mgrVars, trades, pass>>

\* check_orders_background: a pass starts only while the scanner runs.
check_orders_background ==
    /\ ~no_gui /\ is_running
    /\ check_and_update_orders_begin

\* The CLI loop's call of check_and_update_orders.
scanner_loop ==
    /\ no_gui
    /\ check_and_update_orders_begin

\* One turn of the CLI loop (while True in main) up to the start of its
\* reconciliation pass: the scan over all markets, an entry for the top
\* pair at its last price, sized min(max_position_size, 1% of its
\* volume), the ORDER_PLACED alert of the wrapper, and the list of orders
\* check_and_update_orders goes through.
scanner_iteration(marketsOk, ok) ==
    LET pairs == ScanMarket(<<>>, marketsOk, ohlcv, tickers, min_volatility)
        pair == pairs[1]
        one_percent == RDiv(pair.volume, RInt(100))
        position_size == IF RLe(RInt(max_position_size), one_percent)
                         THEN RInt(max_position_size) ELSE one_percent
        r == PlaceBuyField(active_orders, buy_field_orders, orders,
                           next_order_id, pair.symbol, pair.last_price,
                           position_size, ok)
    IN  /\ alive /\ no_gui
        /\ pass = <<>>
        /\ volatile_pairs' = pairs
        /\ IF pairs = <<>>
           THEN UNCHANGED <<mgrVars, orders, next_order_id, alert_history>>
           ELSE /\ r.ret.ids # <<>> => Cardinality(EntryIds) < MaxCliEntries
                /\ active_orders' = r.active_orders
                /\ buy_field_orders' = r.buy_field_orders
                /\ orders' = r.orders
                /\ next_order_id' = r.next_order_id
                /\ alert_history' =
                      IF r.ret.ids = <<>> THEN alert_history
                      ELSE trigger_alerts(alert_history,
                             <<OrderPlacedAlert(r.ret.ids[1], pair.symbol,
                                                pair.last_price,
                                                position_size)>>)
                /\ sell_field_orders' = sell_field_orders
        /\ pass' = [i \in 1 .. Cardinality(DOMAIN active_orders') |->
                       FirstOrderId + i - 1]
        /\ UNCHANGED <<ohlcv, tickers, min_volatility, sessVars, cfgVars,
                       thrVars, live, prices, trades>>

(***************************************************************************)
(* Specifications.                                                         *)
(***************************************************************************)
\* What a gateway call can do: the simulator always answers.
Answers == IF live THEN BOOLEAN ELSE {TRUE}
Rejections == IF live THEN RejectionPatterns ELSE {{}}

Venue ==
    \/ \E f \in [TrackedSymbols -> PriceLevels] : update_prices(f)
    \/ update_orders
    \/ \E id \in IssuedIds, st \in ExchangeStatuses : exchange_event(id, st)

Place ==
    \E symbol \in Symbols, base_price \in BasePrices,
       position_size \in PositionSizes, ok \in Answers :
        place_buy_field(symbol, base_price, position_size, ok)

Loop ==
    \/ check_and_update_orders_begin
    \/ \E pollOk \in Answers, deployOk \in Answers, rejected \in Rejections :
        check_and_update_orders_step(pollOk, deployOk, rejected)

Calls ==
    \/ \E id \in EntryIds \cup {UnknownId}, ok \in Answers,
          rejected \in Rejections : deploy_sell_field(id, ok, rejected)
    \/ \E id \in KnownIds \cup {UnknownId}, ok \in Answers :
        check_field_status(id, ok)
    \/ \E id \in KnownIds \cup {UnknownId}, ok \in Answers :
        retract_field(id, ok)

Report ==
    \E id \in IssuedIds, st \in GatewayReports : exchange_report(id, st)

Polls ==
    \/ \E id \in KnownIds \cup {UnknownId}, ok \in Answers :
        check_field_status(id, ok)
    \/ \E id \in KnownIds \cup {UnknownId}, ok \in Answers :
        retract_field(id, ok)

\* The manager as a library: every public operation, in any order.
Next == Venue \/ Place \/ Calls

Spec == Init /\ [][Next]_vars

\* Entries of several sizes at several reference prices.
PlaceSized ==
    \E symbol \in Symbols, base_price \in GatewayBasePrices,
       position_size \in GatewayPositionSizes, ok \in Answers :
        place_buy_field(symbol, base_price, position_size, ok)

ThreadedPoll ==
    \/ \E t \in Threads, id \in KnownIds, ok \in Answers : poll_call(t, id, ok)
    \/ \E t \in Threads : poll_store(t)

ThreadedPlace ==
    \/ \E symbol \in Symbols, base_price \in BasePrices,
          position_size \in PositionSizes :
            place_call(symbol, base_price, position_size)
    \/ place_store
    \/ place_track

\* Threads polling their own orders while another places entries.
NextThreads == Venue \/ ThreadedPlace \/ ThreadedPoll

SpecThreads == Init /\ [][NextThreads]_vars

Refresh == read_buy_fields \/ read_sell_fields \/ show_fields

\* The dashboard refreshing while the polling thread runs the loop.
NextRefresh == Venue \/ Place \/ Loop \/ Refresh

SpecRefresh == Init /\ [][NextRefresh]_vars

\* Entries, polls and retractions against a venue that also reports partial
\* fills and expiry.
NextGateway == Venue \/ Report \/ PlaceSized \/ Polls

SpecGateway == Init /\ [][NextGateway]_vars

\* Placements through the manager as src/main.py wraps it.
PlaceWithStorage ==
    \E symbol \in Symbols, base_price \in BasePrices,
       position_size \in PositionSizes, ok \in Answers :
        place_fat_finger_buy_with_storage(symbol, base_price, position_size,
                                          ok)

\* The program as src/main.py drives it: placements and the loop only.
NextLoop == Venue \/ PlaceWithStorage \/ Loop

SpecLoop == Init /\ [][NextLoop]_vars

\* The order manager under the dashboard's settings panel.
Settings == \E new_settings \in NewSettings : apply_settings(new_settings)

NextSettings == Venue \/ PlaceWithStorage \/ Loop \/ Settings

SpecSettings == Init /\ [][NextSettings]_vars

\* The CLI loop on the simulator (--simulate --no-gui), on a market where
\* one symbol stays volatile.
InitCli ==
    /\ InitState
    /\ ~live
    /\ no_gui = TRUE
    /\ discount_percentage \in CliDiscounts
    /\ profit_tiers = ORDER_SETTINGS.profit_tiers
    /\ ohlcv = [s \in Markets |->
                  IF s = "BTC/USDT" THEN Feed(<<<<60, 50>>>>, TRUE)
                  ELSE Feed(<<>>, TRUE)]
    /\ tickers \in [Markets -> {"ok", "empty"}]
    /\ min_volatility = RInt(5)
    /\ volatile_pairs = <<>>

CliLoop ==
    \/ \E marketsOk \in Answers, ok \in Answers :
          scanner_iteration(marketsOk, ok)
    \/ \E pollOk \in Answers, deployOk \in Answers, rejected \in Rejections :
          check_and_update_orders_step(pollOk, deployOk, rejected)
    \/ KeyboardInterrupt

\* The simulator's own thread.
Simulation ==
    \/ \E f \in [TrackedSymbols -> PriceLevels] : update_prices(f)
    \/ update_orders

NextCli == Simulation \/ CliLoop

SpecCli == InitCli /\ [][NextCli]_vars

\* The simulator by itself, under any sequence of its calls.
InitSimulator ==
    /\ Init
    /\ ~live

SimulatorCalls ==
    \/ \E symbol \in SimSymbols, amount \in SimAmounts, price \in SimPrices :
          \/ place_limit_buy(symbol, amount, price)
          \/ place_limit_sell(symbol, amount, price)
    \/ \E id \in IssuedIds \cup {UnknownId} : simulator_cancel_order(id)

NextSimulator == Simulation \/ SimulatorCalls

SpecSimulator == InitSimulator /\ [][NextSimulator]_vars

\* The scanner over market data of every kind, on the exchange connector:
\* every answer the simulator gives is one the connector can give.
InitScan ==
    /\ InitManager
    /\ live
    /\ no_gui = FALSE
    /\ ohlcv \in [Markets -> Feeds]
    /\ tickers \in [Markets -> TickerKinds]
    /\ min_volatility \in MinVolatilities
    /\ volatile_pairs = <<>>

NextScan ==
    \E symbols \in SymbolLists, marketsOk \in Answers :
        scan_market(symbols, marketsOk)

SpecScan == InitScan /\ [][NextScan]_vars

\* The scanner switch, the window and the interrupt.
Session ==
    \/ start_scanner
    \/ stop_scanner
    \/ \E reply \in {"Yes", "No"} : closeEvent(reply)
    \/ KeyboardInterrupt

\* The loop as the session starts it.
SessionLoop ==
    \/ check_orders_background
    \/ scanner_loop
    \/ \E pollOk \in Answers, deployOk \in Answers, rejected \in Rejections :
        check_and_update_orders_step(pollOk, deployOk, rejected)

InitSession ==
    /\ InitManager
    /\ InitScanner
    /\ no_gui \in BOOLEAN

\* The program from start to exit, with the venue going on after it.
NextSession == Venue \/ PlaceWithStorage \/ SessionLoop \/ Session

SpecSession == InitSession /\ [][NextSession]_vars


(***************************************************************************)
(* Properties.                                                             *)
(***************************************************************************)
\* The amounts of the exit orders that a table records against an entry.
ExitAmounts(ao, entry) ==
    LET ids == [i \in 1 .. Cardinality(DOMAIN ao) |-> FirstOrderId + i - 1]
        xs == SelectSeq(ids, LAMBDA id : /\ ao[id].type = "sell"
                                         /\ ao[id].related_buy = entry)
    IN  [k \in 1 .. Len(xs) |-> ao[xs[k]].amount]

\* The number of trade rows saved for an order.
TradeCount(order_id) ==
    Len(SelectSeq(trades, LAMBDA t : t.order_id = order_id))

\* C1: once an order's local status is 'closed' (ACTIVATED) or 'canceled'
\* (RETRACTED), no poll, retraction or deployment changes it: every change
\* of a status starts from a status that is not terminal.
C1_TerminalImmutable ==
    [][\A id \in KnownIds :
         active_orders[id].status \in {"closed", "canceled"}
            => active_orders'[id].status = active_orders[id].status]_vars

\* An activated order and a retracted order that has been polled.
C1_Witness ==
    /\ \E id \in KnownIds :
         /\ active_orders[id].status = "closed"
         /\ active_orders[id].filled = active_orders[id].amount
    /\ \E id \in KnownIds :
         /\ active_orders[id].status = "canceled"
         /\ active_orders[id].filled = RInt(0)

\* C2: deploy_sell_field for an unknown order, or for one the gateway does
\* not report 'closed', returns [], makes no place_limit_sell call and
\* leaves the tables as they were; so every exit order in the table refers
\* back to an entry that the venue holds as filled.
C2_NoExitWithoutFill ==
    /\ \A id \in KnownIds \cup {UnknownId}, ok \in BOOLEAN,
          rejected \in SUBSET Tiers :
         (id \notin KnownIds \/ ~ok \/ orders[id].status # "closed") =>
            LET r == DeploySellField(active_orders, sell_field_orders, orders,
                                     next_order_id, id, ok, rejected)
            IN  /\ r.ret.ids = <<>>
                /\ r.ret.sells = 0
                /\ r.active_orders = active_orders
                /\ r.sell_field_orders = sell_field_orders
                /\ r.orders = orders
                /\ r.next_order_id = next_order_id
    /\ \A x \in ExitIds :
         /\ active_orders[x].related_buy \in EntryIds
         /\ orders[active_orders[x].related_buy].status = "closed"

\* An entry the venue still holds open, already polled, and no exit order.
C2_Witness ==
    /\ ExitIds = {}
    /\ \E e \in EntryIds :
         /\ orders[e].status = "open"
         /\ active_orders[e].status = "open"

\* C3: for every entry, in every reachable state and after any further
\* deploy_sell_field call, the amounts of the exit orders recorded against
\* it sum to at most the entry's amount.
C3_ExitsWithinEntry ==
    \A e \in EntryIds, ok \in BOOLEAN, rejected \in SUBSET Tiers :
        LET r == DeploySellField(active_orders, sell_field_orders, orders,
                                 next_order_id, e, ok, rejected)
        IN  RLe(RSum(ExitAmounts(r.active_orders, e)), active_orders[e].amount)

C5_FilledAfterAdvance ==
    [][~live =>
         \A id \in DOMAIN orders :
            (/\ orders[id].side = "buy"
             /\ orders[id].status = "open"
             /\ orders[id].symbol \in DOMAIN prices
             /\ ~RLe(prices[orders[id].symbol], orders[id].price)
             /\ RLe(prices'[orders[id].symbol], orders[id].price))
            => /\ get_order_status(orders', id).status = "closed"
               /\ get_order_status(orders', id).filled = orders[id].amount]_vars

\* An entry the venue has filled and that has no exit order recorded
\* against it.
Undeployed(e) ==
    /\ e \in EntryIds
    /\ orders[e].status = "closed"
    /\ ~\E x \in ExitIds : active_orders[x].related_buy = e

\* C6: a filled entry without exit orders is still one the loop polls (its
\* local status is not yet 'closed'), so that a later poll cycle deploys
\* its exit field.
C6_DeployRetried ==
    \A e \in EntryIds : Undeployed(e) => active_orders[e].status # "closed"

\* Once the loop holds a filled entry as 'closed' without exit orders, no
\* step of the loop changes that.
C6_AbandonedForGood ==
    [][\A e \in EntryIds :
          (Undeployed(e) /\ active_orders[e].status = "closed")
          => (Undeployed(e) /\ active_orders[e].status = "closed")']_vars

\* C7: place_buy_field with a positive reference price and position value,
\* the gateway answering, places one limit buy at
\* base_price * (1 - discount/100) for position_size / price and adds
\* exactly one record with these values, not yet terminal; 100 and 50 at
\* 15% give 85 and 50/85.
C7_PlaceBuyField ==
    \A symbol \in Symbols, base_price \in BasePrices,
       position_size \in PositionSizes :
        (0 < base_price[1] /\ 0 < position_size[1]) =>
            LET r == PlaceBuyField(active_orders, buy_field_orders, orders,
                                   next_order_id, symbol, base_price,
                                   position_size, TRUE)
                id == next_order_id
                rec == r.active_orders[id]
            IN  /\ id \notin KnownIds
                /\ DOMAIN r.active_orders = KnownIds \cup {id}
                /\ \A k \in KnownIds : r.active_orders[k] = active_orders[k]
                /\ r.buy_field_orders = buy_field_orders \cup {id}
                /\ rec.type = "buy" /\ rec.symbol = symbol
                /\ RMul(rec.price, RInt(100))
                      = RMul(base_price, RSub(RInt(100), discount_percentage))
                /\ RMul(rec.amount, rec.price) = position_size
                /\ rec.status \notin {"closed", "canceled"}
                /\ r.ret.ids = <<id>> /\ r.ret.status = "open"
                /\ r.ret.buys = 1
                /\ DOMAIN r.orders = DOMAIN orders \cup {id}
                /\ r.orders[id].side = "buy"
                /\ r.orders[id].price = rec.price
                /\ r.orders[id].amount = rec.amount
                /\ (base_price = RInt(100) /\ position_size = RInt(50)) =>
                      rec.price = <<85, 1>> /\ rec.amount = <<10, 17>>

\* The entry placed for 100 and 50: price 85, amount 50/85, resting.
C7_Witness ==
    /\ FirstOrderId \in EntryIds
    /\ active_orders[FirstOrderId].price = <<85, 1>>
    /\ active_orders[FirstOrderId].amount = <<10, 17>>
    /\ active_orders[FirstOrderId].base_price = RInt(100)
    /\ active_orders[FirstOrderId].status = "none"
    /\ orders[FirstOrderId].status = "open"

\* C8: when place_limit_buy returns nothing, place_buy_field returns {} and
\* active_orders, buy_field_orders and sell_field_orders are what they were.
C8_FailedPlacementChangesNothing ==
    \A symbol \in Symbols, base_price \in BasePrices,
       position_size \in PositionSizes :
        LET r == PlaceBuyField(active_orders, buy_field_orders, orders,
                               next_order_id, symbol, base_price,
                               position_size, FALSE)
        IN  /\ r.ret.status = "empty"
            /\ r.ret.ids = <<>>
            /\ r.active_orders = active_orders
            /\ r.buy_field_orders = buy_field_orders
            /\ r.orders = orders
            /\ r.next_order_id = next_order_id

\* A live gateway, a table that already holds an order, and a placement
\* the gateway does not answer.
C8_Witness ==
    /\ live
    /\ buy_field_orders # {}
    /\ PlaceBuyField(active_orders, buy_field_orders, orders, next_order_id,
                     "BTC/USDT", RInt(100), RInt(50), FALSE).ret.buys = 1

\* C9: a poll that finds the gateway reporting the order filled sets the
\* local status to 'closed', records the filled amount and returns the
\* filled snapshot; so an order held as 'closed' has its whole amount
\* recorded as filled.
C9_PollRecordsFill ==
    /\ \A id \in KnownIds :
         orders[id].status = "closed" =>
            LET r == CheckFieldStatus(active_orders, orders, id, TRUE)
            IN  /\ r.active_orders[id].status = "closed"
                /\ r.active_orders[id].filled = orders[id].filled
                /\ r.active_orders[id].filled = active_orders[id].amount
                /\ r.ret.status = "closed"
                /\ r.ret.filled = active_orders[id].amount
                /\ \A k \in KnownIds \ {id} :
                     r.active_orders[k] = active_orders[k]
    /\ \A id \in KnownIds :
         active_orders[id].status = "closed" =>
            active_orders[id].filled = active_orders[id].amount

\* An order the poll has moved to 'closed' with its amount as filled.
C9_Witness ==
    \E id \in KnownIds :
        /\ active_orders[id].status = "closed"
        /\ active_orders[id].filled = active_orders[id].amount
        /\ orders[id].status = "closed"

ArmedStatuses == {"none", "open"}

\* order.get('filled', 0)
FilledOf(rec) == IF rec.filled = None THEN RInt(0) ELSE rec.filled

\* Two records agree on every key but status, filled and last_update.
SameOrder(a, b) ==
    /\ a.type = b.type /\ a.symbol = b.symbol
    /\ a.amount = b.amount /\ a.price = b.price
    /\ a.base_price = b.base_price /\ a.buy_price = b.buy_price
    /\ a.profit_percentage = b.profit_percentage /\ a.tier = b.tier
    /\ a.related_buy = b.related_buy /\ a.field_type = b.field_type

C12_PollNeverChains ==
    [][/\ \A id \in KnownIds \cup {UnknownId}, ok \in BOOLEAN :
            LET r == CheckFieldStatus(active_orders, orders, id, ok)
            IN  /\ r.ret.buys = 0 /\ r.ret.sells = 0
                /\ DOMAIN r.active_orders = KnownIds
       /\ ExitIds' # ExitIds =>
            \E e \in EntryIds, ok \in BOOLEAN, rejected \in SUBSET Tiers :
                deploy_sell_field(e, ok, rejected)
       /\ (\E id \in KnownIds :
              /\ active_orders[id].status # "closed"
              /\ active_orders'[id].status = "closed") =>
            /\ DOMAIN active_orders' = KnownIds
            /\ orders' = orders
            /\ next_order_id' = next_order_id]_vars

\* A poll has seen the entry filled and no exit order exists.
C12_Witness ==
    \E e \in EntryIds :
        /\ active_orders[e].status = "closed"
        /\ active_orders[e].last_update = Stamp
        /\ ExitIds = {}

\* C13: deploy_sell_field on a filled entry of price P and amount A, the
\* gateway answering, places one limit sell per tier in ascending tier
\* order, at P * (1 + profit_i/100) for A * weight_i, and records each;
\* with tiers 5, 10, 15 and weights 0.5, 0.3, 0.2 the three amounts sum
\* to A.
C13_TierArithmetic ==
    \A e \in EntryIds :
        orders[e].status = "closed" =>
            LET r == DeploySellField(active_orders, sell_field_orders, orders,
                                     next_order_id, e, TRUE, {})
                P == active_orders[e].price
                A == active_orders[e].amount
                new(i) == next_order_id + i - 1
            IN  /\ r.ret.ids = [i \in Tiers |-> new(i)]
                /\ r.ret.sells = NumTiers
                /\ DOMAIN r.active_orders
                      = KnownIds \cup {new(i) : i \in Tiers}
                /\ \A i \in Tiers :
                     LET rec == r.active_orders[new(i)]
                         placed == r.orders[new(i)]
                     IN  /\ new(i) \notin KnownIds
                         /\ rec.type = "sell" /\ rec.tier = i
                         /\ rec.related_buy = e
                         /\ RMul(rec.price, RInt(100))
                               = RMul(P, RAdd(RInt(100), profit_tiers[i]))
                         /\ rec.amount = RMul(A, tier_percentages[i])
                         /\ placed.side = "sell" /\ placed.status = "open"
                         /\ placed.price = rec.price
                         /\ placed.amount = rec.amount
                /\ r.active_orders[new(1)].price = RMul(P, Rat(105, 100))
                /\ r.active_orders[new(2)].price = RMul(P, Rat(110, 100))
                /\ r.active_orders[new(3)].price = RMul(P, Rat(115, 100))
                /\ r.active_orders[new(1)].amount = RMul(A, Rat(5, 10))
                /\ r.active_orders[new(2)].amount = RMul(A, Rat(3, 10))
                /\ r.active_orders[new(3)].amount = RMul(A, Rat(2, 10))
                /\ RSum([i \in Tiers |-> r.active_orders[new(i)].amount]) = A

\* The exit field of the entry bought at 85 for 10/17: sells at 89.25,
\* 93.5 and 97.75 for 5/17, 3/17 and 2/17.
C13_Witness ==
    /\ FirstOrderId \in EntryIds
    /\ ExitIds = {FirstOrderId + i : i \in Tiers}
    /\ active_orders[FirstOrderId + 1].price = <<357, 4>>
    /\ active_orders[FirstOrderId + 2].price = <<187, 2>>
    /\ active_orders[FirstOrderId + 3].price = <<391, 4>>
    /\ active_orders[FirstOrderId + 1].amount = <<5, 17>>
    /\ active_orders[FirstOrderId + 2].amount = <<3, 17>>
    /\ active_orders[FirstOrderId + 3].amount = <<2, 17>>
    /\ \A i \in Tiers : orders[FirstOrderId + i].side = "sell"

\* The tiers of the records a deployment added to a table.
TiersAdded(r) ==
    {r.active_orders[id].tier : id \in DOMAIN r.active_orders \ KnownIds}

\* C14: whichever tiers the gateway refuses during deploy_sell_field, every
\* tier is attempted, exactly the accepted tiers are recorded, each
\* recorded order is in the returned list and in sell_field_orders, and a
\* refused tier leaves no record.
C14_FailedTierSkipped ==
    \A e \in EntryIds, rejected \in SUBSET Tiers :
        orders[e].status = "closed" =>
            LET r == DeploySellField(active_orders, sell_field_orders, orders,
                                     next_order_id, e, TRUE, rejected)
                added == DOMAIN r.active_orders \ KnownIds
                returned == {r.ret.ids[k] : k \in 1 .. Len(r.ret.ids)}
            IN  /\ r.ret.sells = NumTiers
                /\ TiersAdded(r) = Tiers \ rejected
                /\ Cardinality(added) = Cardinality(Tiers \ rejected)
                /\ returned = added
                /\ Len(r.ret.ids) = Cardinality(added)
                /\ r.sell_field_orders = sell_field_orders \cup added
                /\ DOMAIN r.orders = DOMAIN orders \cup added
                /\ \A id \in added :
                     /\ r.active_orders[id].related_buy = e
                     /\ r.active_orders[id].type = "sell"
                /\ \A k \in KnownIds : r.active_orders[k] = active_orders[k]

\* An exit field whose second tier the gateway refused: tiers 1 and 3 are
\* recorded, tier 2 is not.
C14_Witness ==
    \E e \in EntryIds :
        /\ {active_orders[x].tier : x \in ExitIds} = {1, 3}
        /\ \A x \in ExitIds :
             active_orders[x].related_buy = e /\ x \in sell_field_orders

\* C15: retract_field on an ARMED order that rests on the venue, the
\* gateway answering, cancels the order on the venue, sets the local
\* status to 'canceled', takes the id out of its field map and returns the
\* canceled order.
C15_RetractArmed ==
    \A id \in KnownIds :
        (active_orders[id].status \in ArmedStatuses
         /\ orders[id].status = "open") =>
            LET r == RetractField(active_orders, buy_field_orders,
                                  sell_field_orders, orders, id, TRUE)
            IN  /\ r.orders[id].status = "canceled"
                /\ r.active_orders[id].status = "canceled"
                /\ r.ret.status = "canceled"
                /\ id \notin r.buy_field_orders \cup r.sell_field_orders
                /\ SameOrder(r.active_orders[id], active_orders[id])
                /\ \A k \in KnownIds \ {id} :
                     /\ r.active_orders[k] = active_orders[k]
                     /\ r.orders[k] = orders[k]

\* A retracted order: canceled locally and on the venue, out of its field
\* map, never polled.
C15_Witness ==
    \E id \in KnownIds :
        /\ active_orders[id].status = "canceled"
        /\ orders[id].status = "canceled"
        /\ active_orders[id].last_update = None
        /\ id \notin buy_field_orders \cup sell_field_orders

\* C16: retract_field on an order whose local status is already 'closed'
\* or 'canceled' returns {} and leaves the table, the field maps and the
\* venue's book as they were, whether or not the gateway answers.
C16_RetractTerminal ==
    \A id \in KnownIds, ok \in BOOLEAN :
        active_orders[id].status \in {"closed", "canceled"} =>
            LET r == RetractField(active_orders, buy_field_orders,
                                  sell_field_orders, orders, id, ok)
            IN  /\ r.ret.status = "empty"
                /\ r.active_orders = active_orders
                /\ r.buy_field_orders = buy_field_orders
                /\ r.sell_field_orders = sell_field_orders
                /\ r.orders = orders

\* A filled order still tracked in its field map and a retracted one, on
\* which retract_field reports failure.
C16_Witness ==
    /\ \E id \in KnownIds :
         /\ active_orders[id].status = "closed"
         /\ id \in buy_field_orders \cup sell_field_orders
         /\ RetractField(active_orders, buy_field_orders, sell_field_orders,
                         orders, id, TRUE).ret.status = "empty"
    /\ \E id \in KnownIds :
         /\ active_orders[id].status = "canceled"
         /\ RetractField(active_orders, buy_field_orders, sell_field_orders,
                         orders, id, TRUE).ret.status = "empty"

\* C17: no step removes an id from active_orders, and an order that is
\* filled or retracted stays in the table with the same type, symbol,
\* amount and price.
C17_TableOnlyGrows ==
    [][/\ KnownIds \subseteq DOMAIN active_orders'
       /\ \A id \in KnownIds :
            active_orders[id].status \in {"closed", "canceled"} =>
                /\ active_orders'[id].status = active_orders[id].status
                /\ SameOrder(active_orders'[id], active_orders[id])]_vars

\* The table after a retraction: the retracted order is out of the field
\* maps and still in the table, next to a filled one.
C17_Witness ==
    /\ \E id \in KnownIds :
         /\ active_orders[id].status = "canceled"
         /\ id \notin buy_field_orders \cup sell_field_orders
    /\ \E id \in KnownIds : active_orders[id].status = "closed"
    /\ Cardinality(KnownIds) >= 3

\* C18: a poll whose get_order_status call yields {} returns {} and leaves
\* every record (status, filled and last_update included), both field
\* maps and the venue as they were: no step that changes anything is such
\* a poll.
C18_NoResultPoll ==
    [][/\ \A id \in KnownIds \cup {UnknownId} :
            LET r == CheckFieldStatus(active_orders, orders, id, FALSE)
            IN  /\ r.ret.status = "empty"
                /\ r.active_orders = active_orders
       /\ vars' # vars =>
            \A id \in KnownIds \cup {UnknownId} :
                ~check_field_status(id, FALSE)]_vars

\* A live gateway and orders at every stage of their life, polled or not,
\* on which a poll without an answer is a no-op.
C18_Witness ==
    /\ live
    /\ \E id \in KnownIds :
         /\ active_orders[id].last_update = Stamp
         /\ active_orders[id].status = "open"
    /\ \E id \in KnownIds : active_orders[id].last_update = None
    /\ \A id \in KnownIds :
         CheckFieldStatus(active_orders, orders, id, FALSE).ret.status = "empty"

\* C19: with polls of different orders and a placement running
\* interleaved, nothing is lost: a thread that has finished its poll finds
\* what the gateway gave it in its order's record, a finished placement
\* has its order in the table and in buy_field_orders, and every record is
\* the one its placement built.
C19_NoLostUpdate ==
    /\ \A t \in Threads :
         (polls[t].pc = "idle" /\ ~IsEmpty(polls[t].status)) =>
            /\ active_orders[polls[t].id].status = polls[t].status.status
            /\ active_orders[polls[t].id].filled = polls[t].status.filled
            /\ active_orders[polls[t].id].last_update = Stamp
    /\ placing = <<>> =>
         /\ KnownIds = IssuedIds
         /\ buy_field_orders = KnownIds
    /\ KnownIds \subseteq IssuedIds
    /\ \A id \in KnownIds :
         /\ active_orders[id].type = "buy"
         /\ active_orders[id].symbol = orders[id].symbol
         /\ active_orders[id].amount = orders[id].amount
         /\ active_orders[id].price = orders[id].price
         /\ active_orders[id].status \in {"none", orders[id].status, "open"}

\* Two threads inside check_field_status at once, on different orders,
\* each about to write a status its record does not have yet.
C19_Witness ==
    /\ \A t \in Threads :
         /\ polls[t].pc = "fetched"
         /\ ~IsEmpty(polls[t].status)
         /\ active_orders[polls[t].id].status # polls[t].status.status
    /\ polls[1].id # polls[2].id
    /\ polls[1].status # polls[2].status

\* C20: what the refresh holds after reading the field maps is what it
\* read: it does not change while the polling thread inserts, updates or
\* retracts orders.
C20_ReaderHoldsSnapshot ==
    reader.pc \in {"half", "holding"} => Held = reader.shown

\* Orders resting on the venue.
Resting == {id \in IssuedIds : orders[id].status = "open"}

AlertsOf(type, id) ==
    {k \in 1 .. Len(alert_history) :
        /\ alert_history[k].type = type
        /\ alert_history[k].order_id = id}

\* Exactly one alert of the type for the order, carrying the order's
\* symbol, price and amount.
AlertedOnce(type, id) ==
    /\ Cardinality(AlertsOf(type, id)) = 1
    /\ \A k \in AlertsOf(type, id) :
         /\ alert_history[k].symbol = active_orders[id].symbol
         /\ alert_history[k].price = active_orders[id].price
         /\ alert_history[k].amount = active_orders[id].amount

\* C22: with placements and polls going through the wrappers and the loop
\* of src/main.py, every entry in the order table has its ORDER_PLACED
\* alert, every exit order its SELL_ORDER_PLACED alert, every order the
\* loop has seen filled its ORDER_FILLED or SELL_ORDER_FILLED alert, each
\* once and with the order's id, symbol, price and amount; an order not
\* seen filled has no fill alert, and there is no other alert.
C22_LifecycleAlerts ==
    /\ \A e \in EntryIds :
         /\ AlertedOnce("order_placed", e)
         /\ IF active_orders[e].status = "closed"
            THEN AlertedOnce("order_filled", e)
            ELSE AlertsOf("order_filled", e) = {}
    /\ \A x \in ExitIds :
         /\ AlertedOnce("sell_order_placed", x)
         /\ IF active_orders[x].status = "closed"
            THEN AlertedOnce("sell_order_filled", x)
            ELSE AlertsOf("sell_order_filled", x) = {}
    /\ \A k \in 1 .. Len(alert_history) :
         LET a == alert_history[k]
         IN  \/ a.type \in {"order_placed", "order_filled"}
                   /\ a.order_id \in EntryIds
             \/ a.type \in {"sell_order_placed", "sell_order_filled"}
                   /\ a.order_id \in ExitIds
    /\ Len(alert_history) <= HistoryLimit

\* All four kinds of alert have been raised: an entry placed and filled,
\* its three exit orders placed, and one of them filled.
C22_Witness ==
    /\ \E e \in EntryIds :
         /\ AlertsOf("order_placed", e) # {}
         /\ AlertsOf("order_filled", e) # {}
    /\ Cardinality({x \in ExitIds : AlertsOf("sell_order_placed", x) # {}})
          = NumTiers
    /\ \E x \in ExitIds : AlertsOf("sell_order_filled", x) # {}

\* Current prices to try a book against: the simulator's price levels and
\* the prices of the orders in the book.
ProbePrices ==
    [TrackedSymbols -> PriceLevels \cup {orders[id].price : id \in IssuedIds}]

\* C23: at any current prices, Simulator.update_orders turns an order into
\* a filled one (closed, filled = amount, remaining = 0) exactly when it
\* is open and the price is at or below a buy's price, or at or above a
\* sell's price; every other order is left as it was.
C23_MatchingStep ==
    \A px \in ProbePrices :
        LET after == MatchOrders(orders, px)
        IN  /\ DOMAIN after = DOMAIN orders
            /\ \A id \in IssuedIds :
                 LET o == orders[id]
                     cur == px[o.symbol]
                     meets ==
                        \/ o.side = "buy"
                              /\ cur[1] * o.price[2] <= o.price[1] * cur[2]
                        \/ o.side = "sell"
                              /\ cur[1] * o.price[2] >= o.price[1] * cur[2]
                 IN  IF o.status = "open" /\ meets
                     THEN /\ after[id].status = "closed"
                          /\ after[id].filled = o.amount
                          /\ after[id].remaining = RInt(0)
                          /\ after[id].side = o.side
                          /\ after[id].symbol = o.symbol
                          /\ after[id].price = o.price
                          /\ after[id].amount = o.amount
                     ELSE after[id] = o

\* The simulator has filled an exit order whose price was reached and has
\* left a dearer one resting; the entry was filled before.
C23_Witness ==
    /\ ~live
    /\ \E e \in EntryIds :
         orders[e].status = "closed" /\ orders[e].filled = orders[e].amount
    /\ \E x \in ExitIds, y \in ExitIds :
         /\ orders[x].status = "closed"
         /\ orders[x].remaining = RInt(0)
         /\ RLe(orders[x].price, prices[orders[x].symbol])
         /\ orders[y].status = "open"
         /\ ~RLe(orders[y].price, prices[orders[y].symbol])

\* C24: every id in the book and in the order table was issued below the
\* venue's counter, and from any state two place_buy_field calls with the
\* same arguments, one after the other, give two different ids, neither
\* issued before, and two records of their own: the second call leaves
\* the first record, and every older one, as it was.
C24_FreshIds ==
    /\ IssuedIds \subseteq FirstOrderId .. next_order_id - 1
    /\ KnownIds \subseteq IssuedIds
    /\ \A symbol \in Symbols, base_price \in BasePrices,
          position_size \in PositionSizes :
         LET first == PlaceBuyField(active_orders, buy_field_orders, orders,
                                    next_order_id, symbol, base_price,
                                    position_size, TRUE)
             second == PlaceBuyField(first.active_orders,
                                     first.buy_field_orders, first.orders,
                                     first.next_order_id, symbol, base_price,
                                     position_size, TRUE)
         IN  first.ret.ids # <<>> =>
               LET a == first.ret.ids[1]
                   b == second.ret.ids[1]
               IN  /\ Len(second.ret.ids) = 1
                   /\ a # b
                   /\ {a, b} \cap IssuedIds = {}
                   /\ DOMAIN second.active_orders = KnownIds \cup {a, b}
                   /\ DOMAIN second.orders = IssuedIds \cup {a, b}
                   /\ second.buy_field_orders
                         = buy_field_orders \cup {a, b}
                   /\ second.active_orders[a] = first.active_orders[a]
                   /\ second.orders[a] = first.orders[a]
                   /\ second.active_orders[b] = first.active_orders[a]
                   /\ \A k \in KnownIds :
                        second.active_orders[k] = active_orders[k]

\* Two entries placed with the same arguments stand side by side in the
\* order table under different ids, and the first has been polled since.
C24_Witness ==
    \E a \in EntryIds, b \in EntryIds :
        /\ a < b
        /\ active_orders[a].symbol = active_orders[b].symbol
        /\ active_orders[a].price = active_orders[b].price
        /\ active_orders[a].amount = active_orders[b].amount
        /\ active_orders[a].base_price = active_orders[b].base_price
        /\ active_orders[a].status # "none"
        /\ active_orders[b].status = "none"
        /\ {a, b} \subseteq buy_field_orders

\* The symbols of a scan result, in order.
SymbolsOf(pairs) == [k \in 1 .. Len(pairs) |-> pairs[k].symbol]

\* A score that reaches the minimum: a number, or inf, not below it.
ReachesMinimum(score) ==
    /\ score # NaN
    /\ score = Inf \/ RLe(min_volatility, score)

\* C25: scan_market never returns a symbol whose volatility score is below
\* min_volatility: every pair a scan returned carries the score of its
\* symbol's candles, and that score reaches the minimum.
C25_NoPairBelowMinimum ==
    \A k \in 1 .. Len(volatile_pairs) :
        /\ volatile_pairs[k].volatility
              = calculate_volatility(ohlcv[volatile_pairs[k].symbol])
        /\ ReachesMinimum(volatile_pairs[k].volatility)

\* A scan returned one market and left out the other, whose candles give
\* a score above 0 and below the minimum.
C25_Witness ==
    /\ Len(volatile_pairs) = 1
    /\ \E s \in Markets :
          LET score == calculate_volatility(ohlcv[s])
          IN  /\ s # volatile_pairs[1].symbol
              /\ score \notin {NaN, Inf, RInt(0)}
              /\ ~RLe(min_volatility, score)

\* C26: the pairs scan_market returned are in descending order of
\* volatility, and pairs of equal volatility stand in ascending lexical
\* order of their symbols, in whatever order the symbols were supplied.
C26_TiesInSymbolOrder ==
    \A j \in 1 .. Len(volatile_pairs), k \in 1 .. Len(volatile_pairs) :
        j < k =>
          /\ ScoreGeq(volatile_pairs[j].volatility,
                      volatile_pairs[k].volatility)
          /\ volatile_pairs[j].volatility = volatile_pairs[k].volatility
                => SymbolRank[volatile_pairs[j].symbol]
                     < SymbolRank[volatile_pairs[k].symbol]

\* The symbols a scan goes through.
Scanned(symbols, marketsOk) ==
    IF symbols # <<>> THEN symbols
    ELSE IF marketsOk THEN MarketList ELSE <<>>

\* The fetch of a symbol's candles or of its ticker failed, or returned
\* something unusable.
FetchFailed(s) ==
    \/ ~ohlcv[s].wellformed
    \/ tickers[s] # "ok"

\* C27: a symbol whose candle or ticker fetch fails or returns malformed
\* data is skipped, and only that symbol: scan_market returns no such
\* symbol, and returns every other scanned symbol whose score reaches the
\* minimum.
C27_OnlyFailedSymbolSkipped ==
    \A symbols \in SymbolLists, marketsOk \in Answers :
        LET out == ScanMarket(symbols, marketsOk, ohlcv, tickers,
                              min_volatility)
            scanned == Scanned(symbols, marketsOk)
            returned == {out[k].symbol : k \in 1 .. Len(out)}
        IN  /\ \A s \in returned : ~FetchFailed(s)
            /\ \A k \in 1 .. Len(scanned) :
                  /\ ~FetchFailed(scanned[k])
                  /\ ReachesMinimum(calculate_volatility(ohlcv[scanned[k]]))
                  => scanned[k] \in returned

\* C28: a symbol without candle data has the score 0 and is in no scan
\* result, whatever min_volatility is configured.
C28_NoCandlesNeverReturned ==
    \A s \in Markets :
        ohlcv[s].rows = <<>> =>
          /\ calculate_volatility(ohlcv[s]) = RInt(0)
          /\ \A k \in 1 .. Len(volatile_pairs) : volatile_pairs[k].symbol # s

\* The product of the lows of the rows other than row k (all rows: k = 0).
RECURSIVE LowsBut(_, _)
LowsBut(rows, k) ==
    IF rows = <<>> THEN 1
    ELSE (IF k = Len(rows) THEN 1 ELSE rows[Len(rows)][2])
           * LowsBut(SubSeq(rows, 1, Len(rows) - 1), k)

\* The sum of (high - low) * 100 / low over the rows, times all the lows.
RECURSIVE RangesTimesLows(_, _)
RangesTimesLows(rows, k) ==
    IF k = 0 THEN 0
    ELSE (rows[k][1] - rows[k][2]) * 100 * LowsBut(rows, k)
           + RangesTimesLows(rows, k - 1)

\* score is the arithmetic mean of (high - low) / low * 100 over the rows.
IsMeanRange(score, rows) ==
    /\ score \notin {NaN, Inf}
    /\ score[1] * Len(rows) * LowsBut(rows, 0)
          = score[2] * RangesTimesLows(rows, Len(rows))

\* C29: calculate_volatility is the arithmetic mean, over the candles of
\* the window, of (high - low) / low * 100, and 0 when there is no candle;
\* this is the score the pairs of a scan carry.
C29_MeanCandleRange ==
    /\ \A s \in Markets :
          LET rows == ohlcv[s].rows
              score == calculate_volatility(ohlcv[s])
          IN  /\ rows = <<>> => score = RInt(0)
              /\ /\ rows # <<>>
                 /\ ohlcv[s].wellformed
                 /\ \A k \in 1 .. Len(rows) : rows[k][2] > 0
                 => IsMeanRange(score, rows)
    /\ \A k \in 1 .. Len(volatile_pairs) :
          LET rows == ohlcv[volatile_pairs[k].symbol].rows
          IN  /\ rows # <<>>
              /\ ohlcv[volatile_pairs[k].symbol].wellformed
              /\ \A j \in 1 .. Len(rows) : rows[j][2] > 0
              => IsMeanRange(volatile_pairs[k].volatility, rows)

\* A scan returned a symbol with two candles of different ranges: its
\* score is strictly between the two.
C29_Witness ==
    \E k \in 1 .. Len(volatile_pairs) :
        LET rows == ohlcv[volatile_pairs[k].symbol].rows
        IN  /\ Len(rows) = 2
            /\ ohlcv[volatile_pairs[k].symbol].wellformed
            /\ rows[1][2] > 0
            /\ rows[2][2] > 0
            /\ CandleVolatility(rows[1]) # CandleVolatility(rows[2])
            /\ volatile_pairs[k].volatility
                 \notin {CandleVolatility(rows[1]), CandleVolatility(rows[2])}

\* C30: the trade recorded for a filled exit carries the profit
\* (exit price - entry price) / entry price * 100, the entry price being
\* the price of the entry order the exit was deployed for, and that is the
\* profit percentage of the exit's tier; the trade recorded for a filled
\* entry carries no profit.
C30_TradeProfit ==
    \A k \in 1 .. Len(trades) :
        LET trade == trades[k]
            order == active_orders[trade.order_id]
        IN  /\ trade.side = "buy" => trade.profit = None
            /\ trade.side = "sell" =>
                  LET entry_price == active_orders[order.related_buy].price
                      exit_price == trade.price
                  IN  /\ trade.profit # None
                      /\ RMul(trade.profit, entry_price)
                            = RMul(RSub(exit_price, entry_price), RInt(100))
                      /\ trade.profit = profit_tiers[order.tier]

\* The trades of a filled entry and of one of its filled exits are both
\* on record.
C30_Witness ==
    \E j \in 1 .. Len(trades), k \in 1 .. Len(trades) :
        /\ trades[j].side = "buy"
        /\ trades[k].side = "sell"
        /\ active_orders[trades[k].order_id].related_buy = trades[j].order_id
        /\ trades[k].profit \in {profit_tiers[t] : t \in Tiers}

\* The exits a deployment for a filled entry would place now carry the
\* profits of the settings in force and the prices that go with them.
LaterDeploymentsFollowSettings ==
    \A e \in EntryIds :
        LET r == DeploySellField(active_orders, sell_field_orders, orders,
                                 next_order_id, e, TRUE, {})
        IN  /\ active_orders[e].status = "closed" =>
                  Len(r.ret.ids) = Len(profit_tiers)
            /\ \A k \in 1 .. Len(r.ret.ids) :
                  LET rec == r.active_orders[r.ret.ids[k]]
                  IN  /\ rec.profit_percentage = profit_tiers[k]
                      /\ RMul(rec.price, RInt(100)) =
                            RMul(active_orders[e].price,
                                 RAdd(RInt(100), profit_tiers[k]))

\* C31: changing discount_percentage or profit_tiers (apply_settings)
\* leaves every existing order record, the manager's and the venue's, as
\* it was: price, amount, tier and back-reference with it; deployments
\* made afterwards follow the new settings.
C31_SettingsLeaveOrders ==
    /\ [][cfgVars' # cfgVars =>
            /\ active_orders' = active_orders
            /\ orders' = orders
            /\ buy_field_orders' = buy_field_orders
            /\ sell_field_orders' = sell_field_orders]_vars
    /\ []LaterDeploymentsFollowSettings

\* Exits deployed under the settings the program started with stand at
\* their old prices after the settings were changed, and their entry is
\* filled.
C31_Witness ==
    /\ profit_tiers # ORDER_SETTINGS.profit_tiers
    /\ \E x \in ExitIds :
          LET rec == active_orders[x]
          IN  /\ rec.profit_percentage = ORDER_SETTINGS.profit_tiers[rec.tier]
              /\ rec.profit_percentage # profit_tiers[rec.tier]
              /\ rec.price = SellPrice(rec.buy_price, rec.profit_percentage)
              /\ orders[x].price = rec.price

\* The exits on record for an entry.
ExitsOf(e) == {x \in ExitIds : active_orders[x].related_buy = e}

\* Entries placed and neither retracted nor fully exited.
OpenPositions ==
    {e \in EntryIds :
        /\ orders[e].status # "canceled"
        /\ ~ /\ orders[e].status = "closed"
             /\ ExitsOf(e) # {}
             /\ \A x \in ExitsOf(e) : orders[x].status = "closed"}

\* C32: in the CLI loop no more than max_concurrent_positions positions
\* are open at the same time.
C32_PositionsCapped == Cardinality(OpenPositions) <= max_concurrent_positions

\* C33: under check_and_update_orders alone the sell field of an entry is
\* deployed at most once, whatever the number of passes: the loop reaches
\* its call of deploy_sell_field (right after the entry's ORDER_FILLED
\* alert) at most once per entry, exits exist only for an entry it was
\* reached for, and no two exits of an entry have the same tier.
C33_DeployedOnce ==
    \A e \in EntryIds :
        /\ Cardinality(AlertsOf("order_filled", e)) <= 1
        /\ ExitsOf(e) # {} =>
              /\ Cardinality(AlertsOf("order_filled", e)) = 1
              /\ active_orders[e].status = "closed"
        /\ \A x \in ExitsOf(e), y \in ExitsOf(e) :
              active_orders[x].tier = active_orders[y].tier => x = y
        /\ Cardinality(ExitsOf(e)) <= NumTiers

\* An entry has its whole sell field, and passes after the one that
\* deployed it have polled the exits and found one of them filled.
C33_Witness ==
    \E e \in EntryIds :
        /\ Cardinality(ExitsOf(e)) = NumTiers
        /\ \A x \in ExitsOf(e) : active_orders[x].status # "none"
        /\ \E x \in ExitsOf(e) : active_orders[x].status = "closed"
        /\ pass = <<>>

\* C34: with the simulator as gateway a terminal status on the manager's
\* record is the status of the simulator's record: local 'closed' only
\* for an order the simulator has 'closed', local 'canceled' only for one
\* it has 'canceled'.
C34_TerminalStatusAgrees ==
    ~live =>
      \A id \in KnownIds :
          /\ id \in IssuedIds
          /\ active_orders[id].status \in {"closed", "canceled"}
                => orders[id].status = active_orders[id].status

\* On the simulator one order is 'closed' and another 'canceled' on both
\* sides, and a third is filled on the venue while its record still waits
\* for the poll.
C34_Witness ==
    /\ ~live
    /\ \E a \in KnownIds, b \in KnownIds, c \in KnownIds :
          /\ active_orders[a].status = "closed"
          /\ orders[a].status = "closed"
          /\ active_orders[b].status = "canceled"
          /\ orders[b].status = "canceled"
          /\ active_orders[c].status \notin {"closed", "canceled"}
          /\ orders[c].status = "closed"

\* C35: in the simulator a 'closed' or 'canceled' order is never changed
\* again, neither its status nor its filled amount, by update_prices,
\* update_orders, cancel_order or place_order; cancel_order on such an
\* order returns {} and leaves the book as it is.
C35_TerminalAbsorbing ==
    /\ [][\A id \in IssuedIds :
            orders[id].status \in {"closed", "canceled"}
              => /\ id \in DOMAIN orders'
                 /\ orders'[id] = orders[id]]_vars
    /\ [](\A id \in IssuedIds :
            orders[id].status \in {"closed", "canceled"}
              => /\ cancel_order(orders, id).result = EmptyDict
                 /\ cancel_order(orders, id).book = orders
                 /\ MatchOrders(orders, prices)[id] = orders[id])

\* A canceled buy order whose price the market has since met, next to a
\* closed order, with room for more orders.
C35_Witness ==
    /\ ~live
    /\ next_order_id < FirstOrderId + MaxSimOrders
    /\ \E a \in IssuedIds, b \in IssuedIds :
          /\ orders[a].status = "canceled"
          /\ orders[a].filled = RInt(0)
          /\ ShouldFill(orders[a], PriceOf(prices, orders[a].symbol))
          /\ orders[b].status = "closed"
          /\ orders[b].filled = orders[b].amount

\* C38: an order placed on a symbol the simulator tracks no price for
\* never fills: it is never 'closed'.
C38_UntrackedNeverFills ==
    ~live =>
      \A id \in IssuedIds :
          orders[id].symbol \notin DOMAIN prices =>
            orders[id].status # "closed"

\* C40: every simulator order record is well formed: its status is open,
\* closed or canceled; open and canceled orders have filled = 0 and
\* remaining = amount, closed orders filled = amount and remaining = 0.
C40_RecordsWellFormed ==
    ~live =>
      \A id \in IssuedIds :
          LET o == orders[id]
          IN  /\ o.status \in {"open", "closed", "canceled"}
              /\ o.status \in {"open", "canceled"} =>
                    /\ o.filled = RInt(0)
                    /\ o.remaining = o.amount
              /\ o.status = "closed" =>
                    /\ o.filled = o.amount
                    /\ o.remaining = RInt(0)

\* The simulator holds an open, a closed and a canceled order.
C40_Witness ==
    /\ ~live
    /\ \A st \in {"open", "closed", "canceled"} :
          \E id \in IssuedIds : orders[id].status = st

\* An alert of the type for the order stands before position k.
AlertedBefore(type, id, k) == \E j \in AlertsOf(type, id) : j < k

\* C36: alerts are emitted in causal order: an ORDER_FILLED alert has the
\* entry's ORDER_PLACED alert before it, a SELL_ORDER_PLACED alert the
\* ORDER_FILLED alert of the exit's entry, and a SELL_ORDER_FILLED alert
\* the exit's own SELL_ORDER_PLACED alert; so no filled alert comes
\* without an earlier placed alert.
C36_AlertsInCausalOrder ==
    \A k \in 1 .. Len(alert_history) :
        LET a == alert_history[k]
        IN  /\ a.type = "order_filled" =>
                  AlertedBefore("order_placed", a.order_id, k)
            /\ a.type = "sell_order_placed" =>
                  /\ a.order_id \in ExitIds
                  /\ AlertedBefore("order_filled",
                                   active_orders[a.order_id].related_buy, k)
            /\ a.type = "sell_order_filled" =>
                  AlertedBefore("sell_order_placed", a.order_id, k)

\* The whole chain is in the history: an entry placed, then filled, then
\* its last exit placed after the others, then that exit filled.
C36_Witness ==
    \E e \in EntryIds, x \in ExitIds :
        /\ active_orders[x].related_buy = e
        /\ active_orders[x].tier = NumTiers
        /\ \E i \in AlertsOf("order_placed", e),
              j \in AlertsOf("order_filled", e),
              k \in AlertsOf("sell_order_placed", x),
              l \in AlertsOf("sell_order_filled", x) :
                i < j /\ j < k /\ k < l

\* The price the CLI loop would pass for a symbol: its ticker's last price.
ReferencePrices == {TickerLast(tickers[s]) : s \in Markets} \cup BasePrices

\* C37: place_buy_field whose discounted price is zero, the reference
\* price being 0 (the last price the scanner attaches for a missing
\* ticker) or the discount 100%, returns {} without a gateway call and
\* leaves the order table, the field and the venue as they are; the CLI
\* loop in that situation never gets an order on record.
C37_ZeroPriceRejected ==
    /\ \A symbol \in Markets, base_price \in ReferencePrices,
          position_size \in {RInt(0), RInt(1), RInt(max_position_size)},
          ok \in BOOLEAN :
          LET r == PlaceBuyField(active_orders, buy_field_orders, orders,
                                 next_order_id, symbol, base_price,
                                 position_size, ok)
          IN  RIsZero(BuyPrice(base_price)) =>
                /\ r.ret.status = "empty"
                /\ r.ret.ids = <<>>
                /\ r.ret.buys = 0
                /\ r.active_orders = active_orders
                /\ r.buy_field_orders = buy_field_orders
                /\ r.orders = orders
                /\ r.next_order_id = next_order_id
    /\ \A k \in 1 .. Len(volatile_pairs) :
          RIsZero(BuyPrice(volatile_pairs[k].last_price)) =>
            /\ KnownIds = {}
            /\ IssuedIds = {}
            /\ alert_history = <<>>

\* The CLI loop has scanned, found a pair whose ticker was missing, so
\* that its last price is 0, and gone on without an order.
C37_Witness ==
    /\ volatile_pairs # <<>>
    /\ volatile_pairs[1].last_price = RInt(0)
    /\ discount_percentage = ORDER_SETTINGS.discount_percentage
    /\ KnownIds = {}

\* Limits and event types get_recent_alerts is asked with.
MaxLimit == 3

EventFilters ==
    {NoEventType, "order_placed", "order_filled", "sell_order_placed",
     "sell_order_filled"}

\* The last n entries of a sequence, all of them where it has fewer.
LastN(xs, n) ==
    IF n >= Len(xs) THEN xs ELSE SubSeq(xs, Len(xs) - n + 1, Len(xs))

\* C39: get_recent_alerts(limit, event_type) returns at most limit
\* alerts, namely the most recent ones of the history (of its alerts of
\* event_type when one is given) in chronological order, for every
\* limit >= 0 and every history.
C39_RecentAlertsLimited ==
    \A limit \in 0 .. MaxLimit, event_type \in EventFilters :
        LET r == get_recent_alerts(alert_history, limit, event_type)
            of == IF event_type = NoEventType THEN alert_history
                  ELSE FilteredAlerts(alert_history, event_type)
        IN  /\ Len(r) <= limit
            /\ r = LastN(of, limit)

=============================================================================
